---- MODULE Spec2Model ----
(***************************************************************************)
(* Model of the metadata encoder, src/librustc/metadata/encoder.rs.        *)
(*                                                                         *)
(* 64-bit values (stream positions, index keys, discriminants, packed      *)
(* definition ids) are kept at their full width as four 16-bit limbs,      *)
(* most significant first: <<a, b, c, d>> is a*2^48 + b*2^32 + c*2^16 + d. *)
(* A 32-bit value is the pair of its two limbs <<c, d>>.                   *)
(*                                                                         *)
(* The tagged writer (rbml::writer::Encoder over a Cursor<Vec<u8>>) is a   *)
(* record [stack, n, base, st, diag].  What it has written is kept as the  *)
(* documents themselves: a node is [k, tag, pos, val, kids], k = "doc" for *)
(* a start_tag .. end_tag pair with the nodes written in between as kids,  *)
(* k = "wr" for a wr_tagged_* call with its value, k = "bytes" for a raw   *)
(* write_all.  stack holds the documents still open, innermost last, above *)
(* a root node whose kids are the finished top-level documents.  Stream    *)
(* positions count writes: n writes were made so far, pos is the position  *)
(* base + n at which a node starts.  st is "ok" until an assertion or an   *)
(* internal-compiler-error unwinds the encode; diag lists the messages     *)
(* handed to the diagnostic handler.                                       *)
(***************************************************************************)
EXTENDS Integers, Sequences, FiniteSets, TLC

VARIABLES
    pc,      \* where the run under study stands
    args,    \* what the run was given: the crate, the stores, the hash function
    rbml_w,  \* the tagged writer, with the abort state and the diagnostics
    index,   \* the Vec<entry<i64>> of (val, pos) pairs
    todo,    \* the items the visitor has still to visit, in visiting order
    ret      \* what the run returned

vars == <<pc, args, rbml_w, index, todo, ret>>

(***************************************************************************)
(* Fixed-width arithmetic.                                                 *)
(***************************************************************************)
Limb == 256 * 256

u64_of(n) == <<0, 0, n \div Limb, n % Limb>>

u64_lt(x, y) ==
    \/ x[1] < y[1]
    \/ x[1] = y[1] /\ x[2] < y[2]
    \/ x[1] = y[1] /\ x[2] = y[2] /\ x[3] < y[3]
    \/ x[1] = y[1] /\ x[2] = y[2] /\ x[3] = y[3] /\ x[4] < y[4]

\* x + n modulo 2^64, for 0 <= n < 2^16
wrapping_add(x, n) ==
    LET s4 == x[4] + n
        s3 == x[3] + (s4 \div Limb)
        s2 == x[2] + (s3 \div Limb)
        s1 == x[1] + (s2 \div Limb)
    IN  <<s1 % Limb, s2 % Limb, s3 % Limb, s4 % Limb>>

\* the cast `as u32`: the low 32 bits
as_u32(x) == <<x[3], x[4]>>

\* the four bytes (u >> 24, u >> 16, u >> 8, u >> 0) as u8 of a 32-bit u
be_bytes(u) == <<u[1] \div 256, u[1] % 256, u[2] \div 256, u[2] % 256>>

u32_from_be(b) == <<b[1] * 256 + b[2], b[3] * 256 + b[4]>>

U32_MAX == <<0, 0, Limb - 1, Limb - 1>>      \* 0xffff_ffff
I32_MAX == <<0, 0, (Limb \div 2) - 1, Limb - 1>>  \* 0x7fff_ffff

(***************************************************************************)
(* The tagged writer.                                                      *)
(***************************************************************************)
node(k, tag, pos, val) == [k |-> k, tag |-> tag, pos |-> pos, val |-> val, kids |-> <<>>]

new_writer(base) ==
    [stack |-> <<node("root", "", base, <<>>)>>, n |-> 0, base |-> base,
     st |-> "ok", diag |-> <<>>]

mark_stable_position(w) == wrapping_add(w.base, w.n)

\* a finished node goes into the innermost open document
add_kid(w, nd) ==
    [w EXCEPT !.stack[Len(w.stack)].kids = Append(@, nd), !.n = @ + 1]

start_tag(w, tag) ==
    IF w.st # "ok" THEN w
    ELSE [w EXCEPT !.stack = Append(@, node("doc", tag, mark_stable_position(w), <<>>)),
                   !.n = @ + 1]

\* closing with no document open is the writer's pop().unwrap() on None
end_tag(w) ==
    IF w.st # "ok" THEN w
    ELSE IF Len(w.stack) <= 1 THEN [w EXCEPT !.st = "panic"]
    ELSE add_kid([w EXCEPT !.stack = SubSeq(@, 1, Len(@) - 1)], w.stack[Len(w.stack)])

wr_tagged(w, tag, v) ==
    IF w.st # "ok" THEN w
    ELSE add_kid(w, node("wr", tag, mark_stable_position(w), v))

write_all(w, bytes) ==
    IF w.st # "ok" THEN w
    ELSE add_kid(w, node("bytes", "", mark_stable_position(w), bytes))

\* the finished top-level documents
docs(w) == w.stack[1].kids

\* assert!(cond): a panic that unwinds the encode, no diagnostic is emitted
assert_that(w, cond) ==
    IF w.st = "ok" /\ ~cond THEN [w EXCEPT !.st = "panic"] ELSE w

\* ecx.diag.handler().bug(msg): the message goes to the handler, then unwinds
diag_bug(w, msg) ==
    IF w.st # "ok" THEN w
    ELSE [w EXCEPT !.diag = Append(@, msg), !.st = "bug"]

(***************************************************************************)
(* encode_index and its key writer.                                        *)
(***************************************************************************)
write_be_u32(w, u) == write_all(w, be_bytes(u))

\* n < 0x7fff_ffff on i64: a key with the sign bit set is below
i64_lt_i32_max(n) == n[1] >= Limb \div 2 \/ u64_lt(n, I32_MAX)

write_i64(w, n) ==
    write_be_u32(assert_that(w, i64_lt_i32_max(n)), as_u32(n))

(***************************************************************************)
(* SipHasher::new() of encode_index: SipHash-2-4 under the key (0, 0), on  *)
(* 64-bit words held as four 16-bit limbs.                                 *)
(***************************************************************************)
\* a ^ b on 16-bit limbs
RECURSIVE xor16(_, _)
xor16(a, b) ==
    IF a = 0 THEN b
    ELSE IF b = 0 THEN a
    ELSE ((a + b) % 2) + 2 * xor16(a \div 2, b \div 2)

u64_xor(x, y) == <<xor16(x[1], y[1]), xor16(x[2], y[2]), xor16(x[3], y[3]), xor16(x[4], y[4])>>

\* x.wrapping_add(y)
u64_add(x, y) ==
    <<(x[1] + y[1] + ((x[2] + y[2] + ((x[3] + y[3] + ((x[4] + y[4]) \div Limb)) \div Limb))
                         \div Limb)) % Limb,
      (x[2] + y[2] + ((x[3] + y[3] + ((x[4] + y[4]) \div Limb)) \div Limb)) % Limb,
      (x[3] + y[3] + ((x[4] + y[4]) \div Limb)) % Limb,
      (x[4] + y[4]) % Limb>>

\* x.rotate_left(16 * n)
rotl_limbs(x, n) ==
    <<x[(n % 4) + 1], x[((n + 1) % 4) + 1], x[((n + 2) % 4) + 1], x[((n + 3) % 4) + 1]>>

\* x.rotate_left(b) for 0 <= b < 16
rotl_bits(x, b) ==
    <<((x[1] * 2^b) % Limb) + (x[2] \div 2^(16 - b)),
      ((x[2] * 2^b) % Limb) + (x[3] \div 2^(16 - b)),
      ((x[3] * 2^b) % Limb) + (x[4] \div 2^(16 - b)),
      ((x[4] * 2^b) % Limb) + (x[1] \div 2^(16 - b))>>

\* x.rotate_left(b) for 0 <= b < 64
rotl(x, b) == rotl_bits(rotl_limbs(x, b \div 16), b % 16)

\* v0 += v1; v1 = rotl(v1, 13); v1 ^= v0; v0 = rotl(v0, 32), v0 + v1 being s
sip_step_a(v, s) == <<rotl(s, 32), u64_xor(rotl(v[2], 13), s), v[3], v[4]>>

\* v2 += v3; v3 = rotl(v3, 16); v3 ^= v2, v2 + v3 being s
sip_step_b(v, s) == <<v[1], v[2], s, u64_xor(rotl(v[4], 16), s)>>

\* v0 += v3; v3 = rotl(v3, 21); v3 ^= v0, v0 + v3 being s
sip_step_c(v, s) == <<s, v[2], v[3], u64_xor(rotl(v[4], 21), s)>>

\* v2 += v1; v1 = rotl(v1, 17); v1 ^= v2; v2 = rotl(v2, 32), v2 + v1 being s
sip_step_d(v, s) == <<v[1], u64_xor(rotl(v[2], 17), s), rotl(s, 32), v[4]>>

sip_half_a(v) == sip_step_a(v, u64_add(v[1], v[2]))

sip_half_b(v) == sip_step_b(v, u64_add(v[3], v[4]))

sip_half_c(v) == sip_step_c(v, u64_add(v[1], v[4]))

sip_half_d(v) == sip_step_d(v, u64_add(v[3], v[2]))

\* one SipRound on the state v = <<v0, v1, v2, v3>>
sip_round(v) == sip_half_d(sip_half_c(sip_half_b(sip_half_a(v))))

\* the state of SipHasher::new(): the constants "somepseu", "dorandom",
\* "lygenera", "tedbytes" xored with the key (0, 0)
SipInit ==
    <<<<29551, 28005, 28787, 25973>>, <<25711, 29281, 28260, 28525>>,
      <<27769, 26469, 28261, 29281>>, <<29797, 25698, 31092, 25971>>>>

\* n SipRounds in a row; the state is evaluated before each round is entered
RECURSIVE sip_rounds(_, _)
sip_rounds(v, n) ==
    IF n = 0 \/ Len(v) # 4 THEN v ELSE sip_rounds(sip_round(v), n - 1)

sip_xor_v0(v, m) == <<u64_xor(v[1], m), v[2], v[3], v[4]>>

\* one 64-bit word m of input: v3 ^= m; two rounds; v0 ^= m
sip_compress(v, m) ==
    sip_xor_v0(sip_rounds(<<v[1], v[2], v[3], u64_xor(v[4], m)>>, 2), m)

sip_fold(v) == u64_xor(u64_xor(v[1], v[2]), u64_xor(v[3], v[4]))

\* finish(): v2 ^= 0xff; four rounds; v0 ^ v1 ^ v2 ^ v3
sip_finish(v) ==
    sip_fold(sip_rounds(<<v[1], v[2], u64_xor(v[3], <<0, 0, 0, 255>>), v[4]>>, 4))

\* elt.val.hash(&mut s); s.finish(): the i64 is fed as its eight bytes, one
\* little-endian word, and the last word holds the length 8 in its top byte
sip_hash(val) == sip_finish(sip_compress(sip_compress(SipInit, val), <<2048, 0, 0, 0>>))

\* s.finish() as usize % 256 for the key's SipHash value h[val]
bucket_of(h, val) == h[val][4] % 256

make_buckets(idx, h) ==
    [b \in 0..255 |-> SelectSeq(idx, LAMBDA elt: bucket_of(h, elt.val) = b)]

RECURSIVE write_bucket_elts(_, _, _)
write_bucket_elts(w, bucket, i) ==
    IF i > Len(bucket) THEN w
    ELSE LET elt == bucket[i]
             w1 == start_tag(w, "tag_index_buckets_bucket_elt")
             w2 == assert_that(w1, u64_lt(elt.pos, U32_MAX))
             w3 == write_be_u32(w2, as_u32(elt.pos))
             w4 == write_i64(w3, elt.val)
         IN  write_bucket_elts(end_tag(w4), bucket, i + 1)

\* a bucket whose start is taken after its tag is opened
write_bucket_marks_late(r, bucket) ==
    LET w1 == start_tag(r.w, "tag_index_buckets_bucket")
        locs == Append(r.locs, mark_stable_position(w1))
        w2 == write_bucket_elts(w1, bucket, 1)
    IN  [w |-> end_tag(w2), locs |-> locs]

\* One turn of `for bucket in &buckets`; r = [w, locs] is the writer and
\* bucket_locs.
write_bucket(r, bucket) ==
    LET locs == Append(r.locs, mark_stable_position(r.w))
        w1 == start_tag(r.w, "tag_index_buckets_bucket")
        w2 == write_bucket_elts(w1, bucket, 1)
    IN  [w |-> end_tag(w2), locs |-> locs]

\* `for bucket in &buckets` over buckets lo..hi in ascending order (the range
\* is halved only to keep the evaluation shallow); a panic ends the loop.
RECURSIVE write_buckets(_, _, _, _)
write_buckets(r, buckets, lo, hi) ==
    IF lo > hi THEN r
    ELSE IF lo = hi THEN write_bucket(r, buckets[lo])
    ELSE LET mid == (lo + hi) \div 2
             l == write_buckets(r, buckets, lo, mid)
         IN  IF l.w.st # "ok" THEN l ELSE write_buckets(l, buckets, mid + 1, hi)

\* `for pos in &bucket_locs` over entries lo..hi, in order
RECURSIVE write_table(_, _, _, _)
write_table(w, locs, lo, hi) ==
    IF lo > hi THEN w
    ELSE IF lo = hi
    THEN write_be_u32(assert_that(w, u64_lt(locs[lo], U32_MAX)), as_u32(locs[lo]))
    ELSE LET mid == (lo + hi) \div 2
             l == write_table(w, locs, lo, mid)
         IN  IF l.st # "ok" THEN l ELSE write_table(l, locs, mid + 1, hi)

encode_index(w, idx, h) ==
    IF w.st # "ok" THEN w
    ELSE LET buckets == make_buckets(idx, h)
             w1 == start_tag(start_tag(w, "tag_index"), "tag_index_buckets")
             r  == write_buckets([w |-> w1, locs |-> <<>>], buckets, 0, 255)
             w2 == start_tag(end_tag(r.w), "tag_index_table")
             w3 == write_table(w2, r.locs, 1, Len(r.locs))
         IN  end_tag(end_tag(w3))

(***************************************************************************)
(* The reader's two-hop lookup, as the wire contract gives it: take entry  *)
(* (hash mod 256) of the table, go to the bucket it names, scan the        *)
(* bucket's elements for the key.                                          *)
(***************************************************************************)
\* the elements of bucket that carry key, by their offsets
scan_bucket(bucket, key) ==
    {u32_from_be(bucket.kids[i].kids[1].val) : i \in
        {j \in 1..Len(bucket.kids) :
            bucket.kids[j].kids[2].val = be_bytes(as_u32(key))}}

\* every offset the lookup of key yields in the index document ix
lookup_hash(ix, h, key) ==
    LET buckets == ix.kids[1].kids
        table == ix.kids[2].kids
        p == u32_from_be(table[bucket_of(h, key) + 1].val)
    IN  UNION {scan_bucket(buckets[i], key) : i \in
                 {j \in 1..Len(buckets) : as_u32(buckets[j].pos) = p}}

(***************************************************************************)
(* The index builder run on its own: encode_index(rbml_w, index, write_i64) *)
(* on a writer that stands at some position of the stream.                 *)
(***************************************************************************)
MaxEntries == 2

\* node ids as i64 keys: two ordinary ones, two that share bucket 4, and the
\* first one write_i64 rejects
IndexKeys == {u64_of(3), u64_of(4), u64_of(5), u64_of(14), I32_MAX}

\* record offsets: small, 2^32 - 2, 2^32 - 1, and 2^32 + 7
IndexOffsets == {u64_of(7), <<0, 0, Limb - 1, Limb - 2>>, U32_MAX, <<0, 1, 0, 7>>}

\* the hasher's value for every key of the index
IndexSip == [k \in IndexKeys |-> sip_hash(k)]

\* where the index starts in the stream: at 0, late with every bucket start
\* below 2^32 - 1, and so late that the bucket starts run past 2^32 - 1
IndexBases == {u64_of(0), <<0, 0, Limb - 1, Limb - 1001>>,
               <<0, 0, Limb - 1, Limb - 303>>}

Entries == [val : IndexKeys, pos : IndexOffsets]

distinct_keys(idx) ==
    \A i, j \in 1..Len(idx) : i # j => idx[i].val # idx[j].val

IndexInputs ==
    {idx \in UNION {[1..n -> Entries] : n \in 0..MaxEntries} : distinct_keys(idx)}

InitIndex ==
    /\ pc = "encode_index"
    /\ index \in IndexInputs
    /\ args = [sip |-> IndexSip]
    /\ \E base \in IndexBases : rbml_w = new_writer(base)
    /\ todo = <<>>
    /\ ret = <<>>

EncodeIndexCall ==
    /\ pc = "encode_index"
    /\ rbml_w' = encode_index(rbml_w, index, args.sip)
    /\ pc' = IF rbml_w'.st = "ok" THEN "done" ELSE "aborted"
    /\ UNCHANGED <<args, index, todo, ret>>

NextIndex == EncodeIndexCall

SpecIndex == InitIndex /\ [][NextIndex]_vars

fits_u32(x) == x[1] = 0 /\ x[2] = 0

\* C1: when encode_index completes on entries with distinct keys, the two-hop
\* lookup of every inserted key yields exactly the offset recorded for it; the
\* table has exactly 256 entries, entry i being the start of the i-th of the
\* 256 buckets written, each bucket holds only keys of its own number, and the
\* buckets hold as many elements as there were entries.
C1_IndexComplete ==
    pc = "done" =>
        LET ix == docs(rbml_w)[1]
            buckets == ix.kids[1].kids
            table == ix.kids[2].kids
        IN  /\ Len(docs(rbml_w)) = 1 /\ ix.tag = "tag_index" /\ Len(ix.kids) = 2
            /\ ix.kids[1].tag = "tag_index_buckets"
            /\ ix.kids[2].tag = "tag_index_table"
            /\ \A i \in 1..Len(index) :
                   lookup_hash(ix, args.sip, index[i].val) = {as_u32(index[i].pos)}
            /\ Len(table) = 256 /\ Len(buckets) = 256
            /\ \A b \in 1..256 :
                   /\ table[b].k = "bytes"
                   /\ buckets[b].tag = "tag_index_buckets_bucket"
                   /\ u32_from_be(table[b].val) = as_u32(buckets[b].pos)
                   /\ \A e \in 1..Len(buckets[b].kids) : \E i \in 1..Len(index) :
                          /\ bucket_of(args.sip, index[i].val) = b - 1
                          /\ buckets[b].kids[e].kids[2].val = be_bytes(as_u32(index[i].val))
                   /\ Len(buckets[b].kids) =
                          Cardinality({i \in 1..Len(index) :
                                          bucket_of(args.sip, index[i].val) = b - 1})

\* two entries that share a bucket were indexed late in the stream
C1_Witness ==
    /\ pc = "done"
    /\ Len(index) = 2
    /\ bucket_of(args.sip, index[1].val) = bucket_of(args.sip, index[2].val)
    /\ rbml_w.base # u64_of(0)

\* C9 as claimed: encode_index aborts only for an offset (of an entry or of a
\* bucket start) that does not fit 32 bits, a rejected key aside.  When the
\* table is reached, stack[2] is the index document and holds the buckets.
C9_AbortsOnlyPast32Bits ==
    pc = "aborted" =>
        \/ \E i \in 1..Len(index) : ~fits_u32(index[i].pos)
        \/ \E i \in 1..Len(index) : ~i64_lt_i32_max(index[i].val)
        \/ /\ Len(rbml_w.stack[2].kids) = 1
           /\ \E b \in 1..256 : ~fits_u32(rbml_w.stack[2].kids[1].kids[b].pos)

(***************************************************************************)
(* encode_crate_deps.  The store yields its crates in some order; a dep is *)
(* [cnum, name, hash], name and hash being those of crate number cnum.     *)
(***************************************************************************)
crate_dep(cnum) == [cnum |-> cnum, name |-> <<"name", cnum>>, hash |-> <<"hash", cnum>>]

\* the deps left in the order the store yielded them
sort_by_cnum_skipped(deps) == deps

\* deps.sort_by(|kv1, kv2| kv1.cnum.cmp(&kv2.cnum)): a stable sort
RECURSIVE sort_by_cnum(_)
sort_by_cnum(deps) ==
    IF Len(deps) <= 1 THEN deps
    ELSE LET rest == sort_by_cnum(Tail(deps))
             d == Head(deps)
             before == SelectSeq(rest, LAMBDA x : x.cnum < d.cnum)
             after == SelectSeq(rest, LAMBDA x : x.cnum >= d.cnum)
         IN  before \o <<d>> \o after

\* the sanity check: assert_eq!(n.cnum, expected_cnum) for expected_cnum = 1, 2, ...
RECURSIVE check_cnums(_, _, _)
check_cnums(w, deps, expected_cnum) ==
    IF deps = <<>> \/ w.st # "ok" THEN w
    ELSE check_cnums(assert_that(w, Head(deps).cnum = expected_cnum),
                     Tail(deps), expected_cnum + 1)

\* the deps as the store yielded them, unchecked
get_ordered_deps_as_yielded(w, yielded) == [w |-> w, deps |-> yielded]

\* r = [w, deps]: the writer after the sanity check, and the ordered deps
get_ordered_deps(w, yielded) ==
    LET deps == sort_by_cnum(yielded)
    IN  [w |-> check_cnums(w, deps, 1), deps |-> deps]

encode_crate_dep(w, dep) ==
    end_tag(
      wr_tagged(
        wr_tagged(start_tag(w, "tag_crate_dep"), "tag_crate_dep_crate_name", dep.name),
        "tag_crate_dep_hash",
        dep.hash))

RECURSIVE encode_each_dep(_, _)
encode_each_dep(w, deps) ==
    IF deps = <<>> \/ w.st # "ok" THEN w
    ELSE encode_each_dep(encode_crate_dep(w, Head(deps)), Tail(deps))

encode_crate_deps(w, yielded) ==
    LET w1 == start_tag(w, "tag_crate_deps")
        r == get_ordered_deps(w1, yielded)
    IN  end_tag(encode_each_dep(r.w, r.deps))

MaxDeps == 3
MaxCnum == 4

DepInputs ==
    UNION {[1..n -> {crate_dep(c) : c \in 1..MaxCnum}] : n \in 0..MaxDeps}

InitDeps ==
    /\ pc = "encode_crate_deps"
    /\ \E yielded \in DepInputs : args = [cstore |-> yielded]
    /\ rbml_w = new_writer(u64_of(0))
    /\ index = <<>>
    /\ todo = <<>>
    /\ ret = <<>>

EncodeCrateDepsCall ==
    /\ pc = "encode_crate_deps"
    /\ rbml_w' = encode_crate_deps(rbml_w, args.cstore)
    /\ pc' = IF rbml_w'.st = "ok" THEN "done" ELSE "aborted"
    /\ UNCHANGED <<args, index, todo, ret>>

NextDeps == EncodeCrateDepsCall

SpecDeps == InitDeps /\ [][NextDeps]_vars

\* the crate names written so far, in the order written: the kids of the
\* tag_crate_deps document, finished or still open
written_dep_names(w) ==
    LET deps == IF Len(w.stack) >= 2 THEN w.stack[2].kids
                ELSE IF docs(w) = <<>> THEN <<>> ELSE docs(w)[1].kids
    IN  [k \in 1..Len(deps) |-> deps[k].kids[1].val]

dense_cnums(yielded) ==
    {yielded[i].cnum : i \in 1..Len(yielded)} = 1..Len(yielded)

\* C7: encode_crate_deps completes exactly when the dependency numbers are
\* 1..N without gap or duplicate, in whatever order the store yielded them;
\* then the list written is that of crates 1, 2, ..., N in this order, and at
\* no time does the k-th dependency written belong to a crate other than k.
C7_DepsDense ==
    /\ pc = "done" =>
          /\ dense_cnums(args.cstore)
          /\ written_dep_names(rbml_w) =
                 [k \in 1..Len(args.cstore) |-> <<"name", k>>]
    /\ pc = "aborted" => ~dense_cnums(args.cstore)
    /\ \A k \in 1..Len(written_dep_names(rbml_w)) :
          written_dep_names(rbml_w)[k] = <<"name", k>>

\* three dependencies, yielded out of order, were written
C7_Witness ==
    /\ pc = "done"
    /\ Len(args.cstore) = 3
    /\ args.cstore[1].cnum = 3
    /\ args.cstore[2].cnum = 1

\* C8 as claimed, for the dependency numbering: an encode that aborts has
\* reported to the diagnostic handler first.
C8_AbortIsReported ==
    pc = "aborted" => Len(rbml_w.diag) > 0

(***************************************************************************)
(* encode_metadata: the framing of the finished stream.  After             *)
(* encode_metadata_inner the cursor stands at position pos of a backing    *)
(* vector of pos + garbage bytes.  The body's bytes are not modelled, only *)
(* how many there are.                                                     *)
(***************************************************************************)
\* Vec::truncate on a vector of v_len bytes
truncate(v_len, n) == IF u64_lt(n, v_len) THEN n ELSE v_len

\* line 2041: b'r', b'u', b's', b't', 0, 0, 0, 2
metadata_encoding_version == <<114, 117, 115, 116, 0, 0, 0, 2>>

\* an encoder that puts the version tag in front of what it returns
encode_metadata_tagged(pos, garbage) ==
    [prefix |-> be_bytes(as_u32(truncate(wrapping_add(pos, garbage), pos))),
     prefix_at |-> Len(metadata_encoding_version),
     head |-> metadata_encoding_version,
     body_len |-> truncate(wrapping_add(pos, garbage), pos),
     blob_len |-> wrapping_add(truncate(wrapping_add(pos, garbage), pos),
                               4 + Len(metadata_encoding_version))]

\* The vector returned: head is what stands in front of the length field
\* (nothing: each of the four bytes is inserted at index 0), prefix the
\* length field, at offset prefix_at, and after it the body_len bytes of
\* the body.
encode_metadata(pos, garbage) ==
    LET backing == wrapping_add(pos, garbage)    \* wr.into_inner().len()
        metalen == pos                           \* wr.seek(Current(0)) as usize
        v_len == truncate(backing, metalen)      \* v.truncate(metalen)
        len == as_u32(v_len)                     \* v.len() as u32
    IN  [prefix |-> be_bytes(len),               \* four v.insert(0, ..)
         prefix_at |-> 0,
         head |-> <<>>,
         body_len |-> v_len,
         blob_len |-> wrapping_add(v_len, 4)]

MaxGarbage == 5

\* final cursor positions: small ones, around 2^16, around 2^32, and beyond
FinalPositions ==
    {u64_of(0), u64_of(1), u64_of(255), u64_of(256), u64_of(Limb - 1),
     u64_of(Limb), U32_MAX, <<0, 0, Limb - 1, Limb - 5>>,
     <<0, 1, 0, 0>>, <<0, 1, 0, 5>>, <<0, 2, 7, 9>>}

InitBlob ==
    /\ pc = "encode_metadata"
    /\ \E p \in FinalPositions, g \in 0..MaxGarbage : args = [pos |-> p, garbage |-> g]
    /\ rbml_w = new_writer(u64_of(0))
    /\ index = <<>>
    /\ todo = <<>>
    /\ ret = <<>>

EncodeMetadataCall ==
    /\ pc = "encode_metadata"
    /\ ret' = encode_metadata(args.pos, args.garbage)
    /\ pc' = "done"
    /\ UNCHANGED <<args, rbml_w, index, todo>>

NextBlob == EncodeMetadataCall

SpecBlob == InitBlob /\ [][NextBlob]_vars

\* C3 as claimed: the blob is L + 4 bytes long, everything past the cursor is
\* dropped, and the 4-byte big-endian field holds the body length L itself.
C3_LengthFieldIsBodyLength ==
    pc = "done" =>
        /\ ret.body_len = args.pos
        /\ ret.blob_len = wrapping_add(args.pos, 4)
        /\ <<0, 0>> \o u32_from_be(ret.prefix) = ret.body_len

(***************************************************************************)
(* Attributes.  A meta item is [node, name, value, items] with node one of *)
(* "MetaWord", "MetaNameValue" (value a literal [lit, v]) and "MetaList"   *)
(* (items a sequence of meta items); an attribute is                       *)
(* [is_sugared_doc, value].                                                *)
(***************************************************************************)
MetaWord(name) == [node |-> "MetaWord", name |-> name, value |-> <<>>, items |-> <<>>]

MetaNameValue(name, lit) ==
    [node |-> "MetaNameValue", name |-> name, value |-> lit, items |-> <<>>]

MetaList(name, items) ==
    [node |-> "MetaList", name |-> name, value |-> <<>>, items |-> items]

RECURSIVE encode_meta_item(_, _)
RECURSIVE encode_meta_items(_, _)
encode_meta_items(w, items) ==
    IF items = <<>> \/ w.st # "ok" THEN w
    ELSE encode_meta_items(encode_meta_item(w, Head(items)), Tail(items))

encode_meta_item(w, mi) ==
    IF w.st # "ok" THEN w ELSE
    CASE mi.node = "MetaWord" ->
           end_tag(wr_tagged(start_tag(w, "tag_meta_item_word"),
                             "tag_meta_item_name", mi.name))
      [] mi.node = "MetaNameValue" ->
           IF mi.value.lit = "LitStr"
           THEN end_tag(
                  wr_tagged(
                    wr_tagged(
                      start_tag(w, "tag_meta_item_name_value"),
                      "tag_meta_item_name",
                      mi.name),
                    "tag_meta_item_value",
                    mi.value.v))
           ELSE w                        \* FIXME (#623): encode other variants
      [] mi.node = "MetaList" ->
           end_tag(
             encode_meta_items(
               wr_tagged(start_tag(w, "tag_meta_item_list"), "tag_meta_item_name", mi.name),
               mi.items))

encode_attribute(w, attr) ==
    IF w.st # "ok" THEN w ELSE
    end_tag(
      encode_meta_item(
        wr_tagged(
          start_tag(w, "tag_attribute"),
          "tag_attribute_is_sugared_doc",
          IF attr.is_sugared_doc THEN 1 ELSE 0),
        attr.value))

RECURSIVE encode_each_attribute(_, _)
encode_each_attribute(w, attrs) ==
    IF attrs = <<>> \/ w.st # "ok" THEN w
    ELSE encode_each_attribute(encode_attribute(w, Head(attrs)), Tail(attrs))

encode_attributes(w, attrs) ==
    IF w.st # "ok" THEN w ELSE
    end_tag(encode_each_attribute(start_tag(w, "tag_attributes"), attrs))

(***************************************************************************)
(* The reader of an attribute list, as the round-trip contract gives it:   *)
(* every tag_attribute document yields one attribute, its meta item told   *)
(* by the tag of the document that follows the sugared-doc flag.           *)
(***************************************************************************)
RECURSIVE decode_meta_item(_)
decode_meta_item(nd) ==
    CASE nd.tag = "tag_meta_item_word" -> MetaWord(nd.kids[1].val)
      [] nd.tag = "tag_meta_item_name_value" ->
           MetaNameValue(nd.kids[1].val, [lit |-> "LitStr", v |-> nd.kids[2].val])
      [] nd.tag = "tag_meta_item_list" ->
           MetaList(nd.kids[1].val,
                    [i \in 1..(Len(nd.kids) - 1) |-> decode_meta_item(nd.kids[i + 1])])

decode_attribute(nd) ==
    IF Len(nd.kids) < 2 THEN [is_sugared_doc |-> nd.kids[1].val = 1, value |-> <<>>]
    ELSE [is_sugared_doc |-> nd.kids[1].val = 1, value |-> decode_meta_item(nd.kids[2])]

decode_attributes(nd) == [i \in 1..Len(nd.kids) |-> decode_attribute(nd.kids[i])]

MaxAttrs == 2

Lits == {[lit |-> "LitStr", v |-> "s"], [lit |-> "LitInt", v |-> "5"]}

FlatMetaItems ==
    {MetaWord("a"), MetaWord("b")} \cup {MetaNameValue("c", l) : l \in Lits}

MetaItems ==
    FlatMetaItems \cup
    {MetaList("d", items) : items \in UNION {[1..n -> FlatMetaItems] : n \in 0..2}}

Attributes == [is_sugared_doc : BOOLEAN, value : MetaItems]

InitAttr ==
    /\ pc = "encode_attributes"
    /\ \E attrs \in UNION {[1..n -> Attributes] : n \in 0..MaxAttrs} :
          args = [attrs |-> attrs]
    /\ rbml_w = new_writer(u64_of(0))
    /\ index = <<>>
    /\ todo = <<>>
    /\ ret = <<>>

EncodeAttributesCall ==
    /\ pc = "encode_attributes"
    /\ rbml_w' = encode_attributes(rbml_w, args.attrs)
    /\ pc' = "done"
    /\ UNCHANGED <<args, index, todo, ret>>

NextAttr == EncodeAttributesCall

SpecAttr == InitAttr /\ [][NextAttr]_vars

\* C4 as claimed: the attribute list a reader takes from the encoded
\* tag_attributes document is the declaration's attribute list: every
\* attribute, in order, with the full content of its meta item.
C4_AttributesRoundTrip ==
    pc = "done" => decode_attributes(docs(rbml_w)[1]) = args.attrs

(***************************************************************************)
(* Fields of a declaration record.  Once the encode has aborted (the        *)
(* writer's st is not "ok") nothing more is written: the encoders that     *)
(* make several writes say so on entry.  A DefId is [krate, node]; node    *)
(* ids are small naturals, LOCAL_CRATE is 0.  What the type context (tcx)  *)
(* answers                                                                 *)
(* for a declaration travels in the declaration's own record d: d.scheme   *)
(* and d.predicates (lookup_item_type, lookup_predicates), d.stab          *)
(* (stability::lookup), d.path (map.with_path).                            *)
(***************************************************************************)
local_def(id) == [krate |-> 0, node |-> id]

def_to_u64(did) ==
    <<did.krate \div Limb, did.krate % Limb, did.node \div Limb, did.node % Limb>>

encode_name(w, name) == wr_tagged(w, "tag_paths_data_name", name)

encode_def_id(w, id) == wr_tagged(w, "tag_def_id", def_to_u64(id))

encode_family(w, c) == wr_tagged(w, "tag_items_data_item_family", c)

encode_parent_item(w, id) == wr_tagged(w, "tag_items_data_parent_item", def_to_u64(id))

encode_variant_id(w, vid) ==
    wr_tagged(wr_tagged(w, "tag_items_data_item_variant", def_to_u64(vid)),
              "tag_mod_child", def_to_u64(vid))

write_type(w, typ) == write_all(w, typ)

encode_type(w, typ) ==
    IF w.st # "ok" THEN w ELSE
    end_tag(write_type(start_tag(w, "tag_items_data_item_type"), typ))

RECURSIVE encode_type_params(_, _)
encode_type_params(w, types) ==
    IF types = <<>> \/ w.st # "ok" THEN w
    ELSE encode_type_params(
             end_tag(write_all(start_tag(w, "tag_type_param_def"), Head(types))),
             Tail(types))

\* lines 220-226, write_region taken to write the region as one run of bytes
encode_region(w, r) ==
    IF w.st # "ok" THEN w ELSE
    end_tag(write_all(start_tag(w, "tag_items_data_region"), r))

\* lines 745-747: `for &bound_region in &param.bounds`
RECURSIVE encode_region_bounds(_, _)
encode_region_bounds(w, bounds) ==
    IF bounds = <<>> \/ w.st # "ok" THEN w
    ELSE encode_region_bounds(encode_region(w, Head(bounds)), Tail(bounds))

RECURSIVE encode_region_params(_, _)
encode_region_params(w, regions) ==
    IF regions = <<>> \/ w.st # "ok" THEN w
    ELSE encode_region_params(
           end_tag(
            encode_region_bounds(
             wr_tagged(
               wr_tagged(
                 wr_tagged(
                   end_tag(
                     encode_name(
                       start_tag(
                         start_tag(w, "tag_region_param_def"),
                         "tag_region_param_def_ident"),
                       Head(regions).name)),
                   "tag_region_param_def_def_id",
                   def_to_u64(Head(regions).def_id)),
                 "tag_region_param_def_space",
                 Head(regions).space),
               "tag_region_param_def_index",
               Head(regions).index),
             Head(regions).bounds)),
           Tail(regions))

RECURSIVE encode_predicates_in_current_doc(_, _)
encode_predicates_in_current_doc(w, predicates) ==
    IF predicates = <<>> \/ w.st # "ok" THEN w
    ELSE encode_predicates_in_current_doc(
           end_tag(
             end_tag(
               write_all(
                 start_tag(
                   wr_tagged(
                     start_tag(w, "tag_predicate"),
                     "tag_predicate_space",
                     Head(predicates).space),
                   "tag_predicate_data"),
                 Head(predicates).data))),
           Tail(predicates))

encode_predicates(w, predicates, tag) ==
    IF w.st # "ok" THEN w ELSE
    end_tag(encode_predicates_in_current_doc(start_tag(w, tag), predicates))

encode_generics(w, generics, predicates, tag) ==
    IF w.st # "ok" THEN w ELSE
    end_tag(
      encode_predicates_in_current_doc(
        encode_region_params(
          encode_type_params(start_tag(w, tag), generics.types),
          generics.regions),
        predicates))

encode_bounds_and_type(w, scheme, predicates) ==
    IF w.st # "ok" THEN w ELSE
    encode_type(encode_generics(w, scheme.generics, predicates, "tag_item_generics"),
                scheme.ty)

encode_bounds_and_type_for_item(w, d) == encode_bounds_and_type(w, d.scheme, d.predicates)

encode_symbol(w, ecx, id) ==
    IF id \in ecx.item_symbols
    THEN wr_tagged(w, "tag_items_data_item_symbol", <<"symbol", id>>)
    ELSE diag_bug(w, <<"encode_symbol: id not found", id>>)

(***************************************************************************)
(* disr_val.to_string(): the decimal digits of a u64, most significant     *)
(* first, by long division of the four limbs.                              *)
(***************************************************************************)
div10(x) ==
    LET t2 == (x[1] % 10) * Limb + x[2]
        t3 == (t2 % 10) * Limb + x[3]
        t4 == (t3 % 10) * Limb + x[4]
    IN  [q |-> <<x[1] \div 10, t2 \div 10, t3 \div 10, t4 \div 10>>, r |-> t4 % 10]

RECURSIVE to_string(_)
to_string(x) ==
    IF x[1] = 0 /\ x[2] = 0 /\ x[3] = 0 /\ x[4] < 10 THEN <<x[4]>>
    ELSE Append(to_string(div10(x).q), div10(x).r)

encode_disr_val(w, disr_val) == wr_tagged(w, "tag_disr_val", to_string(disr_val))

encode_disr_val_if(w, cond, disr_val) == IF cond THEN encode_disr_val(w, disr_val) ELSE w

encode_visibility(w, visibility) ==
    wr_tagged(w, "tag_items_data_item_visibility",
              IF visibility = "Public" THEN "y" ELSE "i")

\* a field record without its kind tag
encode_struct_field_family_omitted(w, visibility) == w

encode_struct_field_family(w, visibility) ==
    encode_family(w, IF visibility = "Public" THEN "g" ELSE "N")

unnamed_field == "<unnamed_field>"

\* lines 272-279
start_field(w, f) ==
    IF f.name = unnamed_field
    THEN start_tag(w, "tag_item_unnamed_field")
    ELSE encode_name(start_tag(w, "tag_item_field"), f.name)

RECURSIVE encode_struct_fields(_, _, _)
encode_struct_fields(w, fields, origin) ==
    IF fields = <<>> \/ w.st # "ok" THEN w
    ELSE encode_struct_fields(
           end_tag(
             wr_tagged(
               encode_def_id(
                 encode_struct_field_family(start_field(w, Head(fields)), Head(fields).vis),
                 Head(fields).id),
               "tag_item_field_origin",
               def_to_u64(origin))),
           Tail(fields),
           origin)

RECURSIVE encode_path_elems(_, _)
encode_path_elems(w, path) ==
    IF path = <<>> \/ w.st # "ok" THEN w
    ELSE encode_path_elems(
             wr_tagged(w, IF Head(path).elem = "PathMod" THEN "tag_path_elem_mod"
                          ELSE "tag_path_elem_name", Head(path).name),
             Tail(path))

encode_path(w, path) ==
    IF w.st # "ok" THEN w ELSE
    end_tag(
      encode_path_elems(wr_tagged(start_tag(w, "tag_path"), "tag_path_len", Len(path)), path))

RECURSIVE find_repr_attrs(_)
find_repr_attrs(attrs) ==
    IF attrs = <<>> THEN <<>>
    ELSE LET mi == Head(attrs).value
         IN  (IF mi.node = "MetaList" /\ mi.name = "repr"
              THEN [i \in 1..Len(mi.items) |-> mi.items[i].name] ELSE <<>>)
             \o find_repr_attrs(Tail(attrs))

encode_repr_attrs(w, attrs) ==
    IF w.st # "ok" THEN w ELSE
    end_tag(write_all(start_tag(w, "tag_items_data_item_repr"), find_repr_attrs(attrs)))

\* a stability document that is left open
encode_stability_unclosed(w, stab_opt) ==
    IF w.st # "ok" THEN w ELSE
    IF stab_opt = "None" THEN w
    ELSE write_all(start_tag(w, "tag_items_data_item_stability"), stab_opt)

encode_stability(w, stab_opt) ==
    IF w.st # "ok" THEN w ELSE
    IF stab_opt = "None" THEN w
    ELSE end_tag(write_all(start_tag(w, "tag_items_data_item_stability"), stab_opt))

\* an entry whose offset is taken one write late
entry_late(id, pos) == [val |-> u64_of(id), pos |-> wrapping_add(pos, 1)]

entry(id, pos) == [val |-> u64_of(id), pos |-> pos]

\* add_to_index without the push: an omission the index invariants must catch
add_to_index_skipped(index_, w, id) == index_

add_to_index(index_, w, id) ==
    IF w.st # "ok" THEN index_
    ELSE Append(index_, entry(id, mark_stable_position(w)))

(***************************************************************************)
(* encode_info_for_struct: e is [w, index, idx], the writer, the unit-wide *)
(* index and the fields' own index.                                        *)
(***************************************************************************)
\* fields that get neither a record nor an entry
encode_info_for_struct_unindexed(e, fields) == e

RECURSIVE encode_info_for_struct(_, _)
encode_info_for_struct(e, fields) ==
    IF fields = <<>> \/ e.w.st # "ok" THEN e
    ELSE encode_info_for_struct(
           [w |-> end_tag(
                  encode_stability(
                    encode_def_id(
                      encode_bounds_and_type_for_item(
                        encode_name(
                          encode_struct_field_family(
                            start_tag(e.w, "tag_items_data_item"),
                            Head(fields).vis),
                          Head(fields).name),
                        Head(fields)),
                      local_def(Head(fields).id.node)),
                    Head(fields).stab)),
            index |-> add_to_index(e.index, e.w, Head(fields).id.node),
            idx |-> add_to_index(e.idx, e.w, Head(fields).id.node)],
           Tail(fields))

\* the test of line 330 answering yes for every variant
disr_always_diverges(specified_disr_val, disr_val) == TRUE

disr_diverges(specified_disr_val, disr_val) == specified_disr_val # disr_val

\* line 338 without the increment
next_disr_val_stuck(disr_val) == disr_val

next_disr_val(disr_val) == wrapping_add(disr_val, 1)

(***************************************************************************)
(* encode_enum_variant_info, one variant's record in three parts: the      *)
(* fields up to stability (lines 302-315), the field records and field     *)
(* index of a struct-like variant (317-328), the discriminant, type and    *)
(* path (329-337).  e is [w, index]; disr_val is the running default.      *)
(***************************************************************************)
encode_variant_head(w, id, variant) ==
    IF w.st # "ok" THEN w ELSE
    encode_stability(
      encode_repr_attrs(
        encode_attributes(
          encode_visibility(
            encode_parent_item(
              encode_name(
                encode_family(
                  encode_def_id(start_tag(w, "tag_items_data_item"), local_def(variant.id)),
                  IF variant.kind = "TupleVariantKind" THEN "v" ELSE "V"),
                variant.name),
              local_def(id)),
            variant.vis),
          variant.attrs),
        variant.attrs),
      variant.stab)

encode_struct_index(f, ecx, fields, def_id) ==
    [w |-> encode_index(encode_struct_fields(f.w, fields, def_id), f.idx, ecx.sip),
     index |-> f.index]

encode_variant_fields(e, ecx, variant) ==
    IF variant.kind = "TupleVariantKind" THEN e
    ELSE encode_struct_index(
             encode_info_for_struct([w |-> e.w, index |-> e.index, idx |-> <<>>],
                                    variant.fields),
             ecx, variant.fields, local_def(variant.id))

encode_variant_tail(e, variant, disr_val) ==
    IF e.w.st # "ok" THEN e ELSE
    [w |-> end_tag(
           encode_path(
             encode_bounds_and_type_for_item(
               encode_disr_val_if(
                 e.w,
                 disr_diverges(variant.disr_val, disr_val),
                 variant.disr_val),
               variant),
             variant.path)),
     index |-> e.index]

\* the running default after the variant: lines 330-333 and 338
disr_val_after(variant, disr_val) ==
    next_disr_val(IF disr_diverges(variant.disr_val, disr_val)
                  THEN variant.disr_val ELSE disr_val)

RECURSIVE encode_each_variant(_, _, _, _, _, _)
encode_each_variant(e, ecx, id, variants, i, disr_val) ==
    IF i > Len(variants) \/ e.w.st # "ok" THEN e
    ELSE encode_each_variant(
             encode_variant_tail(
                 encode_variant_fields(
                     [w |-> encode_variant_head(e.w, id, variants[i]),
                      index |-> add_to_index(e.index, e.w, variants[i].id)],
                     ecx, variants[i]),
                 variants[i], disr_val),
             ecx, id, variants, i + 1, disr_val_after(variants[i], disr_val))

encode_enum_variant_info(e, ecx, id, variants) ==
    encode_each_variant(e, ecx, id, variants, 1, u64_of(0))

(***************************************************************************)
(* The reader of a variant list: the explicit discriminant of a record     *)
(* when it has one, else the previous variant's value plus one, from 0.    *)
(***************************************************************************)
has_field(nd, tag) == \E i \in DOMAIN nd.kids : nd.kids[i].tag = tag

field_of(nd, tag) == nd.kids[CHOOSE i \in DOMAIN nd.kids : nd.kids[i].tag = tag]

mul10_add(x, d) ==
    LET t4 == x[4] * 10 + d
        t3 == x[3] * 10 + (t4 \div Limb)
        t2 == x[2] * 10 + (t3 \div Limb)
        t1 == x[1] * 10 + (t2 \div Limb)
    IN  <<t1 % Limb, t2 % Limb, t3 % Limb, t4 % Limb>>

RECURSIVE parse_u64(_)
parse_u64(digits) ==
    IF digits = <<>> THEN u64_of(0)
    ELSE mul10_add(parse_u64(SubSeq(digits, 1, Len(digits) - 1)), digits[Len(digits)])

RECURSIVE decode_disr_vals(_, _)
decode_disr_vals(records, n) ==
    IF n = 0 THEN <<>>
    ELSE LET before == decode_disr_vals(records, n - 1)
         IN  Append(before,
                    IF has_field(records[n], "tag_disr_val")
                    THEN parse_u64(field_of(records[n], "tag_disr_val").val)
                    ELSE IF n = 1 THEN u64_of(0)
                    ELSE wrapping_add(before[n - 1], 1))

MaxVariants == 3

MaxNodeId == 60

U64_MAX == <<Limb - 1, Limb - 1, Limb - 1, Limb - 1>>

BigDisr == <<0, 3, 0, 4464>>

DisrVals == {u64_of(0), u64_of(1), u64_of(2), BigDisr, U64_MAX}

no_generics == [types |-> <<>>, regions |-> <<>>]

scheme_of(id) == [generics |-> no_generics, ty |-> <<"ty", id>>]

field_ty(id, name, vis) ==
    [id |-> local_def(id), name |-> name, vis |-> vis, stab |-> "None",
     scheme |-> scheme_of(id), predicates |-> <<>>, attrs |-> <<>>]

Variant(id, kind, disr_val) ==
    [id |-> id, kind |-> kind, name |-> <<"variant", id>>, vis |-> "Public",
     attrs |-> <<>>, stab |-> IF kind = "TupleVariantKind" THEN "None" ELSE "stable",
     fields |-> IF kind = "TupleVariantKind" THEN <<>>
                ELSE <<field_ty(id + 1, "x", "Public"), field_ty(id + 2, "y", "Inherited")>>,
     disr_val |-> disr_val, scheme |-> scheme_of(id), predicates |-> <<>>,
     path |-> <<[elem |-> "PathName", name |-> <<"variant", id>>]>>]

\* variant i of the enum with node id `id`; the struct-like one, if any, is
\* the variant at position struct_at
variants_of(id, disrs, struct_at) ==
    [i \in 1..Len(disrs) |->
        Variant(id + 3 * i, IF i = struct_at THEN "StructVariantKind"
                            ELSE "TupleVariantKind", disrs[i])]

ItemSip == [k \in {u64_of(i) : i \in 0..MaxNodeId} |-> sip_hash(k)]

InitEnum ==
    /\ pc = "encode_enum_variant_info"
    /\ \E disrs \in UNION {[1..n -> DisrVals] : n \in 0..MaxVariants}, struct_at \in 0..1 :
          args = [ecx |-> [item_symbols |-> {}, sip |-> ItemSip], id |-> 1,
                  variants |-> variants_of(1, disrs, struct_at)]
    /\ rbml_w = new_writer(u64_of(0))
    /\ index = <<>>
    /\ todo = <<>>
    /\ ret = <<>>

EncodeEnumVariantInfoCall ==
    /\ pc = "encode_enum_variant_info"
    /\ LET e == encode_enum_variant_info([w |-> rbml_w, index |-> index], args.ecx,
                                         args.id, args.variants)
       IN  /\ rbml_w' = e.w
           /\ index' = e.index
           /\ pc' = IF e.w.st = "ok" THEN "done" ELSE "aborted"
    /\ UNCHANGED <<args, todo, ret>>

NextEnum == EncodeEnumVariantInfoCall

SpecEnum == InitEnum /\ [][NextEnum]_vars

resolved_disr_vals(variants) == [i \in 1..Len(variants) |-> variants[i].disr_val]

with_disr_val(variants, k, v) == [variants EXCEPT ![k].disr_val = v]

decoded_after(ecx, id, variants) ==
    LET recs == docs(encode_enum_variant_info([w |-> new_writer(u64_of(0)), index |-> <<>>],
                                              ecx, id, variants).w)
    IN  decode_disr_vals(recs, Len(recs))

\* C5: the reader that takes the explicit discriminant of a record when it
\* has one and the previous value plus one (from 0) otherwise recovers the
\* resolved discriminant of every variant, wrap-around at the maximum
\* included; when no record carries a discriminant the values read are
\* 0, 1, 2, ...; and another resolved discriminant at position k leaves the
\* values read at the positions below k as they are.
C5_DisrRoundTrip ==
    pc = "done" =>
      LET recs == docs(rbml_w)
          decoded == decode_disr_vals(recs, Len(recs))
      IN  /\ decoded = resolved_disr_vals(args.variants)
          /\ (\A i \in DOMAIN recs : ~has_field(recs[i], "tag_disr_val"))
                => \A i \in DOMAIN decoded : decoded[i] = u64_of(i - 1)
          /\ \A k \in DOMAIN args.variants : \A v \in {u64_of(0), BigDisr, U64_MAX} :
                LET other == decoded_after(args.ecx, args.id,
                                           with_disr_val(args.variants, k, v))
                IN  \A i \in 1..(k - 1) : other[i] = decoded[i]

\* the maximum discriminant followed by a variant whose discriminant 0 is
\* left implicit, after an explicit one of more than 32 bits
C5_Witness ==
    /\ pc = "done"
    /\ Len(args.variants) = 3
    /\ args.variants[1].disr_val = BigDisr
    /\ args.variants[2].disr_val = U64_MAX
    /\ args.variants[3].disr_val = u64_of(0)
    /\ has_field(docs(rbml_w)[2], "tag_disr_val")
    /\ ~has_field(docs(rbml_w)[3], "tag_disr_val")

running_default(variants, i) ==
    IF i = 1 THEN u64_of(0) ELSE wrapping_add(variants[i - 1].disr_val, 1)

\* C6: encode_enum_variant_info writes one record per variant, in
\* declaration order, each with the enum as its parent, and a record has a
\* discriminant field exactly when the variant's resolved discriminant is
\* not the running default: 0 for the first variant, the previous
\* variant's resolved discriminant plus one (in the discriminant's 64 bits)
\* for a later one.
C6_VariantRecords ==
    pc = "done" =>
      LET recs == docs(rbml_w)
      IN  /\ Len(recs) = Len(args.variants)
          /\ \A i \in DOMAIN recs :
                /\ recs[i].tag = "tag_items_data_item"
                /\ recs[i].kids[1].tag = "tag_def_id"
                /\ recs[i].kids[1].val = def_to_u64(local_def(args.variants[i].id))
                /\ has_field(recs[i], "tag_items_data_parent_item")
                /\ field_of(recs[i], "tag_items_data_parent_item").val
                      = def_to_u64(local_def(args.id))
                /\ has_field(recs[i], "tag_disr_val")
                      <=> args.variants[i].disr_val # running_default(args.variants, i)
                /\ has_field(recs[i], "tag_disr_val")
                      => field_of(recs[i], "tag_disr_val").val
                            = to_string(args.variants[i].disr_val)

\* a struct-like first variant whose discriminant is written, a second
\* variant one above it whose discriminant is left out
C6_Witness ==
    /\ pc = "done"
    /\ Len(args.variants) >= 2
    /\ args.variants[1].kind = "StructVariantKind"
    /\ args.variants[1].disr_val = u64_of(1)
    /\ args.variants[2].disr_val = u64_of(2)
    /\ has_field(docs(rbml_w)[1], "tag_disr_val")
    /\ ~has_field(docs(rbml_w)[2], "tag_disr_val")

(***************************************************************************)
(* The remaining fields of the item encoder.  An Option is a sequence of   *)
(* at most one element.                                                    *)
(***************************************************************************)
encode_item_variances(w, d) ==
    IF w.st # "ok" THEN w ELSE
    end_tag(write_all(start_tag(w, "tag_item_variances"), d.variances))

encode_trait_ref(w, trait_ref, tag) ==
    IF w.st # "ok" THEN w ELSE
    end_tag(write_all(start_tag(w, tag), trait_ref))

encode_method_fty(w, typ) ==
    IF w.st # "ok" THEN w ELSE
    end_tag(write_all(start_tag(w, "tag_item_method_fty"), typ))

encode_impl_type_basename(w, name) == wr_tagged(w, "tag_item_impl_type_basename", name)

encode_constness(w, constness) ==
    IF w.st # "ok" THEN w ELSE
    end_tag(write_all(start_tag(w, "tag_items_data_item_constness"),
                      IF constness = "Const" THEN "c" ELSE "n"))

encode_explicit_self(w, explicit_self) ==
    wr_tagged(w, "tag_item_trait_method_explicit_self",
              CASE explicit_self = "StaticExplicitSelfCategory" -> <<"s">>
                [] explicit_self = "ByValueExplicitSelfCategory" -> <<"v">>
                [] explicit_self = "ByBoxExplicitSelfCategory" -> <<"~">>
                [] explicit_self = "ByReferenceExplicitSelfCategory(MutImmutable)" -> <<"&", "i">>
                [] explicit_self = "ByReferenceExplicitSelfCategory(MutMutable)" -> <<"&", "m">>)

encode_item_sort(w, sort) == wr_tagged(w, "tag_item_trait_item_sort", sort)

encode_parent_sort(w, sort) == wr_tagged(w, "tag_item_trait_parent_sort", sort)

encode_provided_source(w, source_opt) ==
    IF source_opt = <<>> \/ w.st # "ok" THEN w
    ELSE wr_tagged(w, "tag_item_method_provided_source", def_to_u64(source_opt[1]))

encode_unsafety(w, unsafety) == wr_tagged(w, "tag_unsafety", IF unsafety = "Unsafe" THEN 1 ELSE 0)

encode_paren_sugar(w, paren_sugar) == wr_tagged(w, "tag_paren_sugar", IF paren_sugar THEN 1 ELSE 0)

encode_defaulted(w, is_defaulted) ==
    wr_tagged(w, "tag_defaulted_trait", IF is_defaulted THEN 1 ELSE 0)

encode_polarity(w, polarity) == wr_tagged(w, "tag_polarity", IF polarity = "Negative" THEN 1 ELSE 0)

RECURSIVE encode_each_type_name(_, _)
encode_each_type_name(w, names) ==
    IF names = <<>> \/ w.st # "ok" THEN w
    ELSE encode_each_type_name(wr_tagged(w, "tag_associated_type_name", Head(names)),
                               Tail(names))

encode_associated_type_names(w, names) ==
    IF w.st # "ok" THEN w ELSE
    end_tag(encode_each_type_name(start_tag(w, "tag_associated_type_names"), names))

\* an argument whose pattern is not an identifier is the name ""
RECURSIVE encode_each_argument_name(_, _)
encode_each_argument_name(w, inputs) ==
    IF inputs = <<>> \/ w.st # "ok" THEN w
    ELSE encode_each_argument_name(wr_tagged(w, "tag_method_argument_name", Head(inputs)),
                                   Tail(inputs))

encode_method_argument_names(w, decl) ==
    IF w.st # "ok" THEN w ELSE
    end_tag(encode_each_argument_name(start_tag(w, "tag_method_argument_names"), decl))

\* an encoder that never attaches an inlined body
encode_inlined_item_dropped(w, ii) == w

\* the EncodeInlinedItem callback, taken to write one document for ii
encode_inlined_item(w, ii) ==
    IF w.st # "ok" THEN w ELSE
    end_tag(write_all(start_tag(w, "tag_ast"), ii))

encode_inlined_item_if(w, cond, ii) == IF cond THEN encode_inlined_item(w, ii) ELSE w

encode_symbol_if(w, cond, ecx, id) == IF cond THEN encode_symbol(w, ecx, id) ELSE w

\* every declaration taken to ask for inlining
requests_inline_always(attrs) == TRUE

\* attr::contains_name on meta items
contains_name(items, name) == \E i \in DOMAIN items : items[i].name = name

\* attr::find_inline_attr of libsyntax, a fold over the attributes: the last
\* `inline` word or list decides; a list must hold one item, `always` or
\* `never`, and is an error read as InlineNone otherwise
RECURSIVE find_inline_attr(_, _, _)
find_inline_attr(attrs, i, ia) ==
    IF i > Len(attrs) THEN ia
    ELSE find_inline_attr(
           attrs, i + 1,
           IF attrs[i].value.name # "inline" THEN ia
           ELSE IF attrs[i].value.node = "MetaWord" THEN "InlineHint"
           ELSE IF attrs[i].value.node # "MetaList" THEN ia
           ELSE IF Len(attrs[i].value.items) # 1 THEN "InlineNone"
           ELSE IF contains_name(attrs[i].value.items, "always") THEN "InlineAlways"
           ELSE IF contains_name(attrs[i].value.items, "never") THEN "InlineNever"
           ELSE "InlineNone")

\* attr::requests_inline: InlineHint and InlineAlways ask for the body
requests_inline(attrs) ==
    find_inline_attr(attrs, 1, "InlineNone") \in {"InlineHint", "InlineAlways"}

RECURSIVE encode_inherent_implementations(_, _)
encode_inherent_implementations(w, implementations) ==
    IF implementations = <<>> \/ w.st # "ok" THEN w
    ELSE encode_inherent_implementations(
             end_tag(encode_def_id(start_tag(w, "tag_items_data_item_inherent_impl"),
                                   Head(implementations))),
             Tail(implementations))

RECURSIVE for_each_impl(_, _)
for_each_impl(w, impls) ==
    IF impls = <<>> \/ w.st # "ok" THEN w
    ELSE for_each_impl(
             end_tag(encode_def_id(start_tag(w, "tag_items_data_item_extension_impl"),
                                   Head(impls))),
             Tail(impls))

encode_extension_implementations(w, trait_def_id, impls) ==
    IF w.st # "ok" THEN w ELSE
    for_each_impl(assert_that(w, trait_def_id.krate = 0), impls)

(***************************************************************************)
(* Reexports.  An export exp is [name, def_id] and, for what tcx answers   *)
(* about exp.def_id: item (map.find: the item [name, path], if it is one), *)
(* base_methods (the items of its inherent impls, if it has any),          *)
(* trait_methods (the items cached for it as a trait, if any).             *)
(***************************************************************************)
encode_reexported_static_method(w, exp, method_def_id, method_name) ==
    IF w.st # "ok" THEN w ELSE
    end_tag(
      wr_tagged(
        wr_tagged(
          start_tag(w, "tag_items_data_item_reexport"),
          "tag_items_data_item_reexport_def_id",
          def_to_u64(method_def_id)),
        "tag_items_data_item_reexport_name",
        <<exp.name, "::", method_name>>))

RECURSIVE encode_reexported_methods(_, _, _)
encode_reexported_methods(w, exp, methods) ==
    IF methods = <<>> \/ w.st # "ok" THEN w
    ELSE IF Head(methods).sort = "MethodTraitItem"
    THEN encode_reexported_methods(
             encode_reexported_static_method(w, exp, Head(methods).def_id,
                                             Head(methods).name),
             exp, Tail(methods))
    ELSE encode_reexported_methods(w, exp, Tail(methods))

\* the closure of lines 422-431: true when the two paths are equal
path_differs(a, b) == a = b

\* the methods of the trait written after those of the inherent impls
encode_reexported_static_methods_of_both(w, mod_path, exp) ==
    IF w.st # "ok" THEN w ELSE
    IF exp.item = <<>> THEN w
    ELSE IF path_differs(exp.item[1].path, mod_path) \/ exp.item[1].name # exp.name
    THEN encode_reexported_methods(
             encode_reexported_methods(
                 w, exp, IF exp.base_methods # <<>> THEN exp.base_methods[1] ELSE <<>>),
             exp, IF exp.trait_methods # <<>> THEN exp.trait_methods[1] ELSE <<>>)
    ELSE w

encode_reexported_static_methods(w, mod_path, exp) ==
    IF w.st # "ok" THEN w ELSE
    IF exp.item = <<>> THEN w
    ELSE IF path_differs(exp.item[1].path, mod_path) \/ exp.item[1].name # exp.name
    THEN IF exp.base_methods # <<>>
         THEN encode_reexported_methods(w, exp, exp.base_methods[1])
         ELSE IF exp.trait_methods # <<>>
         THEN encode_reexported_methods(w, exp, exp.trait_methods[1])
         ELSE w
    ELSE w

RECURSIVE encode_each_reexport(_, _, _)
encode_each_reexport(w, exports, path) ==
    IF exports = <<>> \/ w.st # "ok" THEN w
    ELSE encode_each_reexport(
           encode_reexported_static_methods(
             end_tag(
               wr_tagged(
                 wr_tagged(
                   start_tag(w, "tag_items_data_item_reexport"),
                   "tag_items_data_item_reexport_def_id",
                   def_to_u64(Head(exports).def_id)),
                 "tag_items_data_item_reexport_name",
                 Head(exports).name)),
             path,
             Head(exports)),
           Tail(exports),
           path)

\* ecx.reexports maps a module's node id to its exports; <<>> where it has none
encode_reexports(w, ecx, id, path) ==
    IF w.st # "ok" THEN w ELSE
    encode_each_reexport(w, ecx.reexports[id], path)

encode_reexports_if(w, cond, ecx, id, path) ==
    IF cond THEN encode_reexports(w, ecx, id, path) ELSE w

\* each_auxiliary_node_id: the constructor of a struct whose first field is
\* unnamed
each_auxiliary_node_id(w, item) ==
    IF /\ item.kind = "ItemStruct"
       /\ item.ctor # <<>>
       /\ item.fields # <<>>
       /\ item.fields[1].name = unnamed_field
    THEN wr_tagged(w, "tag_mod_child", def_to_u64(local_def(item.ctor[1].id)))
    ELSE w

encode_mod_impl(w, item) ==
    IF item.kind = "ItemImpl"
    THEN wr_tagged(w, "tag_mod_impl", def_to_u64(local_def(item.id)))
    ELSE w

RECURSIVE encode_mod_children(_, _)
encode_mod_children(w, items) ==
    IF items = <<>> \/ w.st # "ok" THEN w
    ELSE encode_mod_children(
             encode_mod_impl(
                 each_auxiliary_node_id(
                     wr_tagged(w, "tag_mod_child", def_to_u64(local_def(Head(items).id))),
                     Head(items)),
                 Head(items)),
             Tail(items))

encode_info_for_mod(w, ecx, md, attrs, id, path, name, vis) ==
    IF w.st # "ok" THEN w ELSE
    end_tag(
      encode_attributes(
        encode_reexports_if(
          encode_stability(
            encode_visibility(
              encode_path(
                encode_mod_children(
                  encode_name(
                    encode_family(
                      encode_def_id(start_tag(w, "tag_items_data_item"), local_def(id)),
                      "m"),
                    name),
                  md.items),
                path),
              vis),
            md.stab),
          vis = "Public",
          ecx,
          id,
          path),
        attrs))

encode_info_for_struct_ctor(e, ecx, name, ctor, struct_id) ==
    [w |-> end_tag(
           wr_tagged(
             encode_stability(
               encode_symbol_if(
                 encode_parent_item(
                   encode_path(
                     encode_name(
                       encode_bounds_and_type_for_item(
                         encode_family(
                           encode_def_id(
                             start_tag(e.w, "tag_items_data_item"),
                             local_def(ctor.id)),
                           "o"),
                         ctor),
                       name),
                     ctor.path),
                   local_def(struct_id)),
                 ctor.id \in ecx.item_symbols,
                 ecx,
                 ctor.id),
               ctor.stab),
             "tag_items_data_item_is_tuple_struct_ctor",
             <<>>)),
     index |-> add_to_index(e.index, e.w, ctor.id)]

encode_method_ty_fields(w, method_ty) ==
    IF w.st # "ok" THEN w ELSE
    encode_provided_source(
      encode_family(
        encode_explicit_self(
          encode_visibility(
            encode_method_fty(
              encode_generics(
                encode_name(encode_def_id(w, method_ty.def_id), method_ty.name),
                method_ty.generics,
                method_ty.predicates,
                "tag_method_ty_generics"),
              method_ty.fty),
            method_ty.vis),
          method_ty.explicit_self),
        IF method_ty.explicit_self = "StaticExplicitSelfCategory" THEN "F" ELSE "h"),
      method_ty.provided_source)

\* lines 840-843: the part for an impl item that is in the source
encode_const_impl_item(w, parent_id, impl_item_opt) ==
    IF impl_item_opt = <<>> \/ w.st # "ok" THEN w
    ELSE encode_inlined_item(encode_attributes(w, impl_item_opt[1].attrs),
                             <<"IIImplItemRef", parent_id, impl_item_opt[1].id>>)

encode_info_for_associated_const(w, associated_const, impl_path, parent_id, impl_item_opt) ==
    IF w.st # "ok" THEN w ELSE
    end_tag(
      encode_const_impl_item(
        encode_path(
          encode_stability(
            encode_bounds_and_type_for_item(
              encode_item_sort(
                encode_parent_item(
                  encode_provided_source(
                    encode_family(
                      encode_visibility(
                        encode_name(
                          encode_def_id(
                            start_tag(w, "tag_items_data_item"),
                            associated_const.def_id),
                          associated_const.name),
                        associated_const.vis),
                      "C"),
                    associated_const.default),
                  local_def(parent_id)),
                "C"),
              associated_const),
            associated_const.stab),
          Append(impl_path, [elem |-> "PathName", name |-> associated_const.name])),
        parent_id,
        impl_item_opt))

\* a method never taken to be generic
any_types_never(m) == FALSE

any_types(m) == m.scheme.generics.types # <<>>

\* an impl method encoded without what the source says of it
encode_method_impl_item_skipped(w, ecx, m, is_default_impl, parent_id, impl_item_opt) == w

\* lines 872-889: the part for an impl method that is in the source
encode_method_impl_item(w, ecx, m, is_default_impl, parent_id, impl_item_opt) ==
    IF impl_item_opt = <<>> \/ w.st # "ok" THEN w
    ELSE IF impl_item_opt[1].node # "MethodImplItem" THEN w
    ELSE encode_method_argument_names(
           encode_symbol_if(
             encode_constness(
               encode_inlined_item_if(
                 encode_attributes(w, impl_item_opt[1].attrs),
                 \/ any_types(m) \/ is_default_impl
                 \/ requests_inline(impl_item_opt[1].attrs)
                 \/ impl_item_opt[1].constness = "Const",
                 <<"IIImplItemRef", parent_id, impl_item_opt[1].id>>),
               impl_item_opt[1].constness),
             ~any_types(m),
             ecx,
             m.def_id.node),
           impl_item_opt[1].decl)

encode_info_for_method(w, ecx, m, impl_path, is_default_impl, parent_id, impl_item_opt) ==
    IF w.st # "ok" THEN w ELSE
    end_tag(
      encode_method_impl_item(
        encode_path(
          encode_bounds_and_type_for_item(
            encode_stability(
              encode_item_sort(
                encode_parent_item(
                  encode_method_ty_fields(start_tag(w, "tag_items_data_item"), m),
                  local_def(parent_id)),
                "r"),
              m.stab),
            m),
          Append(impl_path, [elem |-> "PathName", name |-> m.name])),
        ecx,
        m,
        is_default_impl,
        parent_id,
        impl_item_opt))

encode_type_if(w, ty_opt) == IF ty_opt # <<>> THEN encode_type(w, ty_opt[1]) ELSE w

\* lines 919-929
encode_type_impl_item(w, associated_type, impl_item_opt) ==
    encode_type_if(
        IF impl_item_opt # <<>>
        THEN encode_attributes(w, impl_item_opt[1].attrs)
        ELSE encode_predicates(w, associated_type.predicates, "tag_item_generics"),
        associated_type.ty)

encode_info_for_associated_type(w, associated_type, impl_path, parent_id, impl_item_opt) ==
    IF w.st # "ok" THEN w ELSE
    end_tag(
      encode_type_impl_item(
        encode_path(
          encode_stability(
            encode_item_sort(
              encode_parent_item(
                encode_family(
                  encode_visibility(
                    encode_name(
                      encode_def_id(start_tag(w, "tag_items_data_item"), associated_type.def_id),
                      associated_type.name),
                    associated_type.vis),
                  "y"),
                local_def(parent_id)),
              "t"),
            associated_type.stab),
          Append(impl_path, [elem |-> "PathName", name |-> associated_type.name])),
        associated_type,
        impl_item_opt))

(***************************************************************************)
(* encode_info_for_item, one operator per kind of item.  Those named       *)
(* encode_item_* give the writer after the item's own record; the index    *)
(* entry is added by encode_info_for_item below.  An impl or trait item it *)
(* carries both what tcx knows of it (sort, def_id, name, vis, scheme,     *)
(* ...) and its source form (node, attrs, decl, body, constness).          *)
(***************************************************************************)
encode_item_static(w, ecx, item, path, vis) ==
    IF w.st # "ok" THEN w ELSE
    end_tag(
      encode_attributes(
        encode_stability(
          encode_visibility(
            encode_path(
              encode_name(
                encode_symbol(
                  encode_bounds_and_type_for_item(
                    encode_family(
                      encode_def_id(start_tag(w, "tag_items_data_item"), local_def(item.id)),
                      IF item.m = "MutMutable" THEN "b" ELSE "c"),
                    item),
                  ecx,
                  item.id),
                item.name),
              path),
            vis),
          item.stab),
        item.attrs))

encode_item_const(w, item, path, vis) ==
    IF w.st # "ok" THEN w ELSE
    end_tag(
      encode_stability(
        encode_visibility(
          encode_inlined_item(
            encode_attributes(
              encode_path(
                encode_name(
                  encode_bounds_and_type_for_item(
                    encode_family(
                      encode_def_id(start_tag(w, "tag_items_data_item"), local_def(item.id)),
                      "C"),
                    item),
                  item.name),
                path),
              item.attrs),
            <<"IIItemRef", item.id>>),
          vis),
        item.stab))

encode_item_fn(w, ecx, item, path, vis) ==
    IF w.st # "ok" THEN w ELSE
    end_tag(
      encode_method_argument_names(
        encode_stability(
          encode_visibility(
            encode_constness(
              encode_symbol_if(
                encode_inlined_item_if(
                  encode_attributes(
                    encode_path(
                      encode_name(
                        encode_bounds_and_type_for_item(
                          encode_family(
                            encode_def_id(
                              start_tag(w, "tag_items_data_item"),
                              local_def(item.id)),
                            "f"),
                          item),
                        item.name),
                      path),
                    item.attrs),
                  \/ item.tps_len > 0 \/ requests_inline(item.attrs) \/ item.constness = "Const",
                  <<"IIItemRef", item.id>>),
                item.tps_len = 0,
                ecx,
                item.id),
              item.constness),
            vis),
          item.stab),
        item.decl))

RECURSIVE encode_foreign_children(_, _)
encode_foreign_children(w, items) ==
    IF items = <<>> \/ w.st # "ok" THEN w
    ELSE encode_foreign_children(
             wr_tagged(w, "tag_mod_child", def_to_u64(local_def(Head(items).id))),
             Tail(items))

encode_item_foreign_mod(w, item, path, vis) ==
    IF w.st # "ok" THEN w ELSE
    end_tag(
      encode_stability(
        encode_visibility(
          encode_foreign_children(
            encode_path(
              encode_name(
                encode_family(
                  encode_def_id(start_tag(w, "tag_items_data_item"), local_def(item.id)),
                  "n"),
                item.name),
              path),
            item.items),
          vis),
        item.stab))

encode_item_ty(w, item, path, vis) ==
    IF w.st # "ok" THEN w ELSE
    end_tag(
      encode_stability(
        encode_visibility(
          encode_path(
            encode_name(
              encode_bounds_and_type_for_item(
                encode_family(
                  encode_def_id(start_tag(w, "tag_items_data_item"), local_def(item.id)),
                  "y"),
                item),
              item.name),
            path),
          vis),
        item.stab))

RECURSIVE encode_variant_ids(_, _)
encode_variant_ids(w, variants) ==
    IF variants = <<>> \/ w.st # "ok" THEN w
    ELSE encode_variant_ids(encode_variant_id(w, local_def(Head(variants).id)),
                            Tail(variants))

encode_item_enum(w, item, path, vis) ==
    IF w.st # "ok" THEN w ELSE
    end_tag(
      encode_stability(
        encode_visibility(
          encode_inherent_implementations(
            encode_path(
              encode_inlined_item(
                encode_variant_ids(
                  encode_repr_attrs(
                    encode_attributes(
                      encode_name(
                        encode_bounds_and_type_for_item(
                          encode_item_variances(
                            encode_family(
                              encode_def_id(
                                start_tag(w, "tag_items_data_item"),
                                local_def(item.id)),
                              "t"),
                            item),
                          item),
                        item.name),
                      item.attrs),
                    item.attrs),
                  item.variants),
                <<"IIItemRef", item.id>>),
              path),
            item.inherent_impls),
          vis),
        item.stab))

\* lines 1172-1201: f is what encode_info_for_struct returned
encode_item_struct(f, ecx, item, path, vis) ==
    IF f.w.st # "ok" THEN [w |-> f.w, index |-> f.index] ELSE
    [w |-> end_tag(
           encode_index(
             encode_inherent_implementations(
               encode_inlined_item(
                 encode_struct_fields(
                   encode_repr_attrs(
                     encode_visibility(
                       encode_stability(
                         encode_path(
                           encode_attributes(
                             encode_name(
                               encode_item_variances(
                                 encode_bounds_and_type_for_item(
                                   encode_family(
                                     encode_def_id(
                                       start_tag(f.w, "tag_items_data_item"),
                                       local_def(item.id)),
                                     "S"),
                                   item),
                                 item),
                               item.name),
                             item.attrs),
                           path),
                         item.stab),
                       vis),
                     item.attrs),
                   item.fields,
                   local_def(item.id)),
                 <<"IIItemRef", item.id>>),
               item.inherent_impls),
             f.idx,
             ecx.sip)),
     index |-> add_to_index(f.index, f.w, item.id)]

\* a struct whose constructor gets no record
encode_item_struct_ctor_omitted(e, ecx, item) == e

\* lines 1204-1210
encode_item_struct_ctor(e, ecx, item) ==
    IF item.ctor = <<>> \/ e.w.st # "ok" THEN e
    ELSE encode_info_for_struct_ctor(e, ecx, item.name, item.ctor[1], item.id)

encode_item_default_impl(w, item) ==
    IF w.st # "ok" THEN w ELSE
    end_tag(
      encode_trait_ref(
        encode_unsafety(
          encode_name(
            encode_family(
              encode_def_id(start_tag(w, "tag_items_data_item"), local_def(item.id)),
              "d"),
            item.name),
          item.unsafety),
        item.trait_ref[1],
        "tag_item_trait_ref"))

sort_of(it) ==
    CASE it.sort = "ConstTraitItem" -> "C"
      [] it.sort = "MethodTraitItem" -> "r"
      [] it.sort = "TypeTraitItem" -> "t"

\* lines 1256-1273
RECURSIVE encode_impl_item_ids(_, _)
encode_impl_item_ids(w, items) ==
    IF items = <<>> \/ w.st # "ok" THEN w
    ELSE encode_impl_item_ids(
             end_tag(encode_item_sort(encode_def_id(start_tag(w, "tag_item_impl_item"),
                                                    Head(items).def_id),
                                      sort_of(Head(items)))),
             Tail(items))

\* lines 1240-1247
encode_impl_coerce_unsized_kind(w, item) ==
    IF item.coerce_unsized_kind # <<>>
    THEN end_tag(write_all(start_tag(w, "tag_impl_coerce_unsized_kind"),
                           item.coerce_unsized_kind[1]))
    ELSE w

\* lines 1249-1255: the self type is a path of one segment
encode_impl_self_ty(w, item) ==
    IF item.self_ty_basename # <<>>
    THEN encode_impl_type_basename(w, item.self_ty_basename[1])
    ELSE w

\* lines 1274-1276
encode_impl_trait_ref(w, item) ==
    IF item.trait_ref # <<>>
    THEN encode_trait_ref(w, item.trait_ref[1], "tag_item_trait_ref")
    ELSE w

encode_item_impl(w, item, path) ==
    IF w.st # "ok" THEN w ELSE
    end_tag(
      encode_stability(
        encode_path(
          encode_impl_trait_ref(
            encode_impl_item_ids(
              encode_impl_self_ty(
                encode_impl_coerce_unsized_kind(
                  encode_polarity(
                    encode_unsafety(
                      encode_attributes(
                        encode_name(
                          encode_bounds_and_type_for_item(
                            encode_family(
                              encode_def_id(
                                start_tag(w, "tag_items_data_item"),
                                local_def(item.id)),
                              "i"),
                            item),
                          item.name),
                        item.attrs),
                      item.unsafety),
                    item.polarity),
                  item),
                item),
              item.impl_items),
            item),
          path),
        item.stab))

\* lines 1298-1324
encode_impl_item(w, ecx, it, path, parent_id, ast_item) ==
    IF w.st # "ok" THEN w ELSE
    CASE it.sort = "ConstTraitItem" ->
           encode_info_for_associated_const(w, it, path, parent_id, ast_item)
      [] it.sort = "MethodTraitItem" ->
           encode_info_for_method(w, ecx, it, path, FALSE, parent_id, ast_item)
      [] it.sort = "TypeTraitItem" ->
           encode_info_for_associated_type(w, it, path, parent_id, ast_item)

\* lines 1285-1325: the first item.ast_items of the impl's items are in the
\* source
RECURSIVE encode_each_impl_item(_, _, _, _, _)
encode_each_impl_item(e, ecx, item, path, i) ==
    IF i > Len(item.impl_items) \/ e.w.st # "ok" THEN e
    ELSE encode_each_impl_item(
             [w |-> encode_impl_item(e.w, ecx, item.impl_items[i], path, item.id,
                                     IF i <= item.ast_items
                                     THEN <<item.impl_items[i]>> ELSE <<>>),
              index |-> add_to_index(e.index, e.w, item.impl_items[i].def_id.node)],
             ecx, item, path, i + 1)

\* lines 1348-1368
RECURSIVE encode_trait_item_ids(_, _)
encode_trait_item_ids(w, items) ==
    IF items = <<>> \/ w.st # "ok" THEN w
    ELSE encode_trait_item_ids(
             wr_tagged(
                 end_tag(encode_item_sort(
                             encode_def_id(start_tag(w, "tag_item_trait_item"),
                                           Head(items).def_id),
                             sort_of(Head(items)))),
                 "tag_mod_child", def_to_u64(Head(items).def_id)),
             Tail(items))

encode_item_trait(w, item, path, vis) ==
    IF w.st # "ok" THEN w ELSE
    end_tag(
      encode_inherent_implementations(
        encode_extension_implementations(
          encode_path(
            encode_trait_item_ids(
              encode_stability(
                encode_visibility(
                  encode_attributes(
                    encode_name(
                      encode_trait_ref(
                        encode_predicates(
                          encode_generics(
                            encode_associated_type_names(
                              encode_defaulted(
                                encode_paren_sugar(
                                  encode_unsafety(
                                    encode_item_variances(
                                      encode_family(
                                        encode_def_id(
                                          start_tag(w, "tag_items_data_item"),
                                          local_def(item.id)),
                                        "I"),
                                      item),
                                    item.unsafety),
                                  item.paren_sugar),
                                item.has_default_impl),
                              item.associated_type_names),
                            item.scheme.generics,
                            item.predicates,
                            "tag_item_generics"),
                          item.super_predicates,
                          "tag_item_super_predicates"),
                        item.trait_ref[1],
                        "tag_item_trait_ref"),
                      item.name),
                    item.attrs),
                  vis),
                item.stab),
              item.trait_items),
            path),
          local_def(item.id),
          item.extension_impls),
        item.inherent_impls))

is_nonstatic_method(it) ==
    it.sort = "MethodTraitItem" /\ it.explicit_self # "StaticExplicitSelfCategory"

\* lines 1400-1418
encode_trait_const(w, associated_const, path) ==
    IF w.st # "ok" THEN w ELSE
    encode_bounds_and_type_for_item(
      encode_family(
        encode_item_sort(
          encode_path(
            encode_provided_source(
              encode_visibility(
                encode_def_id(encode_name(w, associated_const.name), associated_const.def_id),
                associated_const.vis),
              associated_const.default),
            Append(path, [elem |-> "PathName", name |-> associated_const.name])),
          "C"),
        "C"),
      associated_const)

\* lines 1419-1442
encode_trait_method(w, method_ty, path) ==
    IF w.st # "ok" THEN w ELSE
    encode_bounds_and_type_for_item(
      encode_family(
        encode_path(
          encode_method_ty_fields(w, method_ty),
          Append(path, [elem |-> "PathName", name |-> method_ty.name])),
        IF method_ty.explicit_self = "StaticExplicitSelfCategory" THEN "F" ELSE "h"),
      method_ty)

\* lines 1443-1459
encode_trait_type(w, associated_type, path) ==
    IF w.st # "ok" THEN w ELSE
    encode_type_if(
      encode_family(
        encode_item_sort(
          encode_path(
            encode_def_id(encode_name(w, associated_type.name), associated_type.def_id),
            Append(path, [elem |-> "PathName", name |-> associated_type.name])),
          "t"),
        "y"),
      associated_type.ty)

\* lines 1399-1460
encode_trait_item_type(w, it, path) ==
    IF w.st # "ok" THEN w ELSE
    CASE it.sort = "ConstTraitItem" -> encode_trait_const(w, it, path)
      [] it.sort = "MethodTraitItem" -> encode_trait_method(w, it, path)
      [] it.sort = "TypeTraitItem" -> encode_trait_type(w, it, path)

\* lines 1474-1479
encode_bounds_and_type_again(w, trait_item) ==
    IF is_nonstatic_method(trait_item)
    THEN encode_bounds_and_type_for_item(w, trait_item) ELSE w

\* a trait method always marked as required
encode_trait_method_sort_required(w, def_id, trait_item) == encode_item_sort(w, "r")

\* lines 1481-1486
encode_trait_method_sort(w, def_id, trait_item) ==
    IF trait_item.body
    THEN encode_inlined_item(encode_item_sort(w, "p"),
                             <<"IITraitItemRef", def_id.node, trait_item.id>>)
    ELSE encode_item_sort(w, "r")

\* lines 1474-1487
encode_trait_method_source(w, def_id, trait_item) ==
    encode_method_argument_names(
        encode_trait_method_sort(encode_bounds_and_type_again(w, trait_item),
                                 def_id, trait_item),
        trait_item.decl)

\* lines 1464-1491
encode_trait_item_source(w, def_id, trait_item) ==
    IF w.st # "ok" THEN w ELSE
    CASE trait_item.node = "ConstTraitItem" ->
           encode_inlined_item(encode_attributes(w, trait_item.attrs),
                               <<"IITraitItemRef", def_id.node, trait_item.id>>)
      [] trait_item.node = "MethodTraitItem" ->
           encode_trait_method_source(encode_attributes(w, trait_item.attrs), def_id,
                                      trait_item)
      [] trait_item.node = "TypeTraitItem" -> encode_attributes(w, trait_item.attrs)

\* lines 1389-1493: one trait item's record
encode_trait_item(w, def_id, it, path) ==
    IF w.st # "ok" THEN w ELSE
    end_tag(
      encode_trait_item_source(
        encode_parent_sort(
          encode_trait_item_type(
            encode_stability(
              encode_parent_item(start_tag(w, "tag_items_data_item"), def_id),
              it.stab),
            it,
            path),
          "t"),
        def_id,
        it))

\* lines 1380-1494
RECURSIVE encode_each_trait_item(_, _, _, _)
encode_each_trait_item(e, item, path, i) ==
    IF i > Len(item.trait_items) \/ e.w.st # "ok" THEN e
    ELSE IF item.trait_items[i].def_id.krate # 0
    THEN [w |-> assert_that(e.w, FALSE), index |-> e.index]
    ELSE encode_each_trait_item(
             [w |-> encode_trait_item(e.w, local_def(item.id), item.trait_items[i], path),
              index |-> add_to_index(e.index, e.w, item.trait_items[i].def_id.node)],
             item, path, i + 1)

encode_info_for_item(e, ecx, item, path, vis) ==
    CASE item.kind = "ItemStatic" ->
           [w |-> encode_item_static(e.w, ecx, item, path, vis),
            index |-> add_to_index(e.index, e.w, item.id)]
      [] item.kind = "ItemConst" ->
           [w |-> encode_item_const(e.w, item, path, vis),
            index |-> add_to_index(e.index, e.w, item.id)]
      [] item.kind = "ItemFn" ->
           [w |-> encode_item_fn(e.w, ecx, item, path, vis),
            index |-> add_to_index(e.index, e.w, item.id)]
      [] item.kind = "ItemMod" ->
           [w |-> encode_info_for_mod(e.w, ecx, item.md, item.attrs, item.id, path,
                                      item.name, item.vis),
            index |-> add_to_index(e.index, e.w, item.id)]
      [] item.kind = "ItemForeignMod" ->
           [w |-> encode_item_foreign_mod(e.w, item, path, vis),
            index |-> add_to_index(e.index, e.w, item.id)]
      [] item.kind = "ItemTy" ->
           [w |-> encode_item_ty(e.w, item, path, vis),
            index |-> add_to_index(e.index, e.w, item.id)]
      [] item.kind = "ItemEnum" ->
           encode_enum_variant_info(
               [w |-> encode_item_enum(e.w, item, path, vis),
                index |-> add_to_index(e.index, e.w, item.id)],
               ecx, item.id, item.variants)
      [] item.kind = "ItemStruct" ->
           encode_item_struct_ctor(
               encode_item_struct(
                   encode_info_for_struct([w |-> e.w, index |-> e.index, idx |-> <<>>],
                                          item.fields),
                   ecx, item, path, vis),
               ecx, item)
      [] item.kind = "ItemDefaultImpl" ->
           [w |-> encode_item_default_impl(e.w, item),
            index |-> add_to_index(e.index, e.w, item.id)]
      [] item.kind = "ItemImpl" ->
           encode_each_impl_item(
               [w |-> encode_item_impl(e.w, item, path),
                index |-> add_to_index(e.index, e.w, item.id)],
               ecx, item, path, 1)
      [] item.kind = "ItemTrait" ->
           encode_each_trait_item(
               [w |-> encode_item_trait(e.w, item, path, vis),
                index |-> add_to_index(e.index, e.w, item.id)],
               item, path, 1)
      [] item.kind \in {"ItemExternCrate", "ItemUse", "ItemMac"} -> e

\* lines 1516-1543
encode_foreign_item_node(w, ecx, nitem, abi) ==
    IF w.st # "ok" THEN w ELSE
    IF nitem.node = "ForeignItemFn"
    THEN encode_method_argument_names(
           encode_symbol(
             encode_stability(
               encode_attributes(
                 encode_inlined_item_if(
                   encode_name(
                     encode_bounds_and_type_for_item(encode_family(w, "f"), nitem),
                     nitem.name),
                   abi = "RustIntrinsic",
                   <<"IIForeignRef", nitem.id>>),
                 nitem.attrs),
               nitem.stab),
             ecx,
             nitem.id),
           nitem.decl)
    ELSE encode_name(
           encode_symbol(
             encode_stability(
               encode_attributes(
                 encode_bounds_and_type_for_item(
                   encode_family(w, IF nitem.mutbl THEN "b" ELSE "c"),
                   nitem),
                 nitem.attrs),
               nitem.stab),
             ecx,
             nitem.id),
           nitem.name)

encode_info_for_foreign_item(e, ecx, nitem, path, abi) ==
    [w |-> end_tag(
           encode_path(
             encode_foreign_item_node(
               encode_visibility(
                 encode_def_id(start_tag(e.w, "tag_items_data_item"), local_def(nitem.id)),
                 nitem.vis),
               ecx,
               nitem,
               abi),
             path)),
     index |-> add_to_index(e.index, e.w, nitem.id)]

(***************************************************************************)
(* encode_info_for_items.  walk_crate visits the items in post-order (the  *)
(* visitor walks into an item before it encodes it); the visits still to   *)
(* make are in todo.  e is [w, index].                                     *)
(***************************************************************************)
path_elem(item) ==
    [elem |-> IF item.kind = "ItemMod" THEN "PathMod" ELSE "PathName", name |-> item.name]

RECURSIVE walk_mod(_, _)
RECURSIVE walk_item(_, _)
walk_mod(items, path) ==
    IF items = <<>> THEN <<>>
    ELSE walk_item(Head(items), path) \o walk_mod(Tail(items), path)

walk_item(item, path) ==
    (CASE item.kind = "ItemMod" -> walk_mod(item.md.items, Append(path, path_elem(item)))
       [] item.kind = "ItemForeignMod" ->
            [i \in 1..Len(item.items) |->
                [visit |-> "foreign_item", item |-> item.items[i],
                 path |-> Append(path, [elem |-> "PathName", name |-> item.items[i].name]),
                 abi |-> item.abi]]
       [] OTHER -> <<>>)
    \o <<[visit |-> "item", item |-> item, path |-> Append(path, path_elem(item)),
          abi |-> "Rust"]>>

walk_crate(krate) == walk_mod(krate.module.items, <<>>)

\* lines 1607-1619: the root module, node id 0 (CRATE_NODE_ID), with no name
encode_root_mod(w, ecx, krate) ==
    [w |-> encode_info_for_mod(w, ecx, krate.module, <<>>, 0, <<>>, "", "Public"),
     index |-> add_to_index(<<>>, w, 0)]

my_visit_item(e, ecx, v) == encode_info_for_item(e, ecx, v.item, v.path, v.item.vis)

my_visit_foreign_item(e, ecx, v) ==
    encode_info_for_foreign_item(e, ecx, v.item, v.path, v.abi)

(***************************************************************************)
(* The crates of the items specification: one subject item, of every kind  *)
(* in turn, with or without a second item after it, inside MaxDepth or     *)
(* fewer nested modules.  The subject has node id 10 and what it declares  *)
(* the ids after it, the second item 40, the modules 1, 2, ...             *)
(***************************************************************************)
MaxDepth == 1

Item(kind, id, name) ==
    [kind |-> kind, id |-> id, name |-> name, vis |-> "Public", attrs |-> <<>>,
     stab |-> "None", scheme |-> scheme_of(id), predicates |-> <<>>,
     variances |-> <<"variances", id>>, inherent_impls |-> <<>>,
     m |-> "MutImmutable", constness |-> "NotConst", tps_len |-> 0, decl |-> <<>>,
     abi |-> "Rust", items |-> <<>>, md |-> [items |-> <<>>, stab |-> "None"],
     variants |-> <<>>, fields |-> <<>>, ctor |-> <<>>,
     unsafety |-> "Normal", polarity |-> "Positive", trait_ref |-> <<>>, of_trait |-> <<>>,
     coerce_unsized_kind |-> <<>>, self_ty_basename |-> <<>>,
     impl_items |-> <<>>, ast_items |-> 0,
     paren_sugar |-> FALSE, has_default_impl |-> FALSE, associated_type_names |-> <<>>,
     super_predicates |-> <<>>, trait_items |-> <<>>, extension_impls |-> <<>>]

\* an item of an impl or of a trait
AssocItem(sort, source, id, name, explicit_self) ==
    [sort |-> sort, node |-> source, id |-> id, def_id |-> local_def(id), name |-> name,
     vis |-> "Public", stab |-> "None", scheme |-> scheme_of(id), predicates |-> <<>>,
     generics |-> no_generics, fty |-> <<"fty", id>>, explicit_self |-> explicit_self,
     provided_source |-> <<>>, default |-> <<>>, ty |-> <<>>, attrs |-> <<>>,
     decl |-> <<>>, body |-> FALSE, constness |-> "NotConst"]

ForeignItem(source, id, name) ==
    [node |-> source, id |-> id, name |-> name, vis |-> "Public", attrs |-> <<>>,
     stab |-> "None", scheme |-> scheme_of(id), predicates |-> <<>>, mutbl |-> FALSE,
     decl |-> <<"x", "">>]

Ctor(id, name) ==
    [id |-> id, scheme |-> scheme_of(id), predicates |-> <<>>, stab |-> "None",
     path |-> <<[elem |-> "PathName", name |-> name]>>]

Attr(mi) == [is_sugared_doc |-> FALSE, value |-> mi]

one_type_param == [types |-> <<"T">>, regions |-> <<>>]

a_region_param ==
    [types |-> <<>>,
     regions |-> <<[name |-> "'a", def_id |-> local_def(19), space |-> 0, index |-> 0,
                    bounds |-> <<"'b">>]>>]

a_predicate == [space |-> 0, data |-> "T: Sized"]

extern_trait == [krate |-> 1, node |-> 7]

ItemChoices ==
    {"static", "static_mut", "const", "fn", "generic_fn", "const_fn", "inline_fn", "noinline_fn",
     "mod",
     "foreign_mod", "intrinsics", "ty", "enum", "struct", "newtype", "unit_struct",
     "default_impl", "impl", "trait_impl", "trait", "extern_crate", "use", "mac",
     "extern_fn", "local_trait_impl", "trait_obj"}

impl_items_of(c) ==
    IF c = "impl"
    THEN <<[AssocItem("ConstTraitItem", "ConstImplItem", 11, "K",
                      "StaticExplicitSelfCategory") EXCEPT !.vis = "Inherited"],
           [AssocItem("MethodTraitItem", "MethodImplItem", 12, "get",
                      "ByReferenceExplicitSelfCategory(MutImmutable)")
               EXCEPT !.decl = <<"self", "k">>, !.stab = "stable"],
           [AssocItem("MethodTraitItem", "MethodImplItem", 13, "new",
                      "StaticExplicitSelfCategory")
               EXCEPT !.scheme = [generics |-> one_type_param, ty |-> <<"ty", 13>>],
                      !.generics = a_region_param, !.predicates = <<a_predicate>>],
           [AssocItem("MethodTraitItem", "MethodImplItem", 14, "at",
                      "ByValueExplicitSelfCategory")
               EXCEPT !.constness = "Const", !.attrs = <<Attr(MetaWord("inline"))>>]>>
    ELSE <<[AssocItem("TypeTraitItem", "TypeImplItem", 11, "Out",
                      "StaticExplicitSelfCategory") EXCEPT !.ty = <<"u8">>],
           [AssocItem("MethodTraitItem", "MethodImplItem", 12, "next",
                      "ByReferenceExplicitSelfCategory(MutMutable)")
               EXCEPT !.decl = <<"self">>],
           [AssocItem("MethodTraitItem", "MethodImplItem", 16, "peek",
                      "ByReferenceExplicitSelfCategory(MutImmutable)")
               EXCEPT !.decl = <<"self">>, !.attrs = <<Attr(MetaWord("inline"))>>],
           [AssocItem("MethodTraitItem", "MethodImplItem", 13, "skip",
                      "ByBoxExplicitSelfCategory")
               EXCEPT !.provided_source = <<[krate |-> 1, node |-> 8]>>,
                      !.scheme = [generics |-> one_type_param, ty |-> <<"ty", 13>>]],
           [AssocItem("ConstTraitItem", "ConstImplItem", 14, "N",
                      "StaticExplicitSelfCategory")
               EXCEPT !.default = <<[krate |-> 1, node |-> 9]>>],
           [AssocItem("TypeTraitItem", "TypeImplItem", 15, "In",
                      "StaticExplicitSelfCategory")
               EXCEPT !.predicates = <<a_predicate>>]>>

trait_items_of ==
    <<[AssocItem("ConstTraitItem", "ConstTraitItem", 11, "N", "StaticExplicitSelfCategory")
          EXCEPT !.stab = "unstable"],
      AssocItem("MethodTraitItem", "MethodTraitItem", 12, "make",
                "StaticExplicitSelfCategory"),
      [AssocItem("MethodTraitItem", "MethodTraitItem", 13, "next",
                 "ByReferenceExplicitSelfCategory(MutMutable)")
          EXCEPT !.decl = <<"self">>],
      [AssocItem("MethodTraitItem", "MethodTraitItem", 14, "skip",
                 "ByValueExplicitSelfCategory")
          EXCEPT !.body = TRUE, !.decl = <<"self", "n">>, !.stab = "stable"],
      [AssocItem("TypeTraitItem", "TypeTraitItem", 15, "Out", "StaticExplicitSelfCategory")
          EXCEPT !.ty = <<"u8">>],
      AssocItem("TypeTraitItem", "TypeTraitItem", 16, "In", "StaticExplicitSelfCategory")>>

\* the subject item of choice c; impls are the inherent impls tcx has for it
subject(c, impls) ==
    CASE c = "static" -> [Item("ItemStatic", 10, "S") EXCEPT !.stab = "stable"]
      [] c = "static_mut" ->
           [Item("ItemStatic", 10, "S") EXCEPT !.m = "MutMutable", !.vis = "Inherited",
                                               !.attrs = <<Attr(MetaWord("no_mangle"))>>]
      [] c = "const" -> Item("ItemConst", 10, "K")
      [] c = "fn" -> [Item("ItemFn", 10, "f") EXCEPT !.decl = <<"a", "">>]
      [] c = "generic_fn" ->
           [Item("ItemFn", 10, "f")
               EXCEPT !.tps_len = 1, !.predicates = <<a_predicate>>,
                      !.scheme = [generics |-> one_type_param, ty |-> <<"ty", 10>>]]
      [] c = "const_fn" -> [Item("ItemFn", 10, "f") EXCEPT !.constness = "Const"]
      [] c = "noinline_fn" ->
           [Item("ItemFn", 10, "f")
               EXCEPT !.attrs = <<Attr(MetaList("inline", <<MetaWord("never")>>))>>]
      [] c = "inline_fn" ->
           [Item("ItemFn", 10, "f")
               EXCEPT !.attrs = <<Attr(MetaList("inline", <<MetaWord("always")>>))>>]
      [] c = "mod" ->
           [Item("ItemMod", 10, "inner")
               EXCEPT !.md = [items |-> <<Item("ItemTy", 11, "T"), Item("ItemUse", 12, "")>>,
                              stab |-> "None"],
                      !.vis = "Inherited"]
      [] c = "foreign_mod" ->
           [Item("ItemForeignMod", 10, "")
               EXCEPT !.items = <<ForeignItem("ForeignItemFn", 11, "puts"),
                                  [ForeignItem("ForeignItemStatic", 12, "errno")
                                      EXCEPT !.mutbl = TRUE, !.vis = "Inherited"],
                                  ForeignItem("ForeignItemStatic", 13, "environ")>>,
                      !.abi = "C"]
      [] c = "intrinsics" ->
           [Item("ItemForeignMod", 10, "")
               EXCEPT !.items = <<ForeignItem("ForeignItemFn", 11, "transmute")>>,
                      !.abi = "RustIntrinsic"]
      [] c = "ty" -> Item("ItemTy", 10, "T")
      [] c = "enum" ->
           [Item("ItemEnum", 10, "E")
               EXCEPT !.variants = variants_of(10, <<u64_of(0), u64_of(2)>>, 2),
                      !.inherent_impls = impls,
                      !.attrs = <<Attr(MetaList("repr", <<MetaWord("u8")>>))>>]
      [] c = "struct" ->
           [Item("ItemStruct", 10, "P")
               EXCEPT !.fields = <<field_ty(11, "x", "Public"),
                                   field_ty(12, "y", "Inherited")>>,
                      !.inherent_impls = impls]
      [] c = "newtype" ->
           [Item("ItemStruct", 10, "W")
               EXCEPT !.fields = <<field_ty(11, unnamed_field, "Public")>>,
                      !.ctor = <<Ctor(12, "W")>>, !.inherent_impls = impls]
      [] c = "unit_struct" ->
           [Item("ItemStruct", 10, "U")
               EXCEPT !.ctor = <<Ctor(11, "U")>>, !.inherent_impls = impls]
      [] c = "default_impl" ->
           [Item("ItemDefaultImpl", 10, "")
               EXCEPT !.unsafety = "Unsafe", !.trait_ref = <<<<"trait_ref", 7>>>>]
      [] c = "impl" ->
           [Item("ItemImpl", 10, "")
               EXCEPT !.impl_items = impl_items_of(c), !.ast_items = 4,
                      !.self_ty_basename = <<"P">>]
      [] c = "trait_impl" ->
           [Item("ItemImpl", 10, "")
               EXCEPT !.impl_items = impl_items_of(c), !.ast_items = 3,
                      !.trait_ref = <<<<"trait_ref", 7>>>>, !.polarity = "Negative",
                      !.coerce_unsized_kind = <<"Struct(0)">>,
                      !.of_trait = <<extern_trait>>]
      [] c = "local_trait_impl" ->
           [Item("ItemImpl", 10, "")
               EXCEPT !.trait_ref = <<<<"trait_ref", 50>>>>, !.of_trait = <<local_def(50)>>,
                      !.self_ty_basename = <<"P">>]
      [] c = "extern_fn" -> [Item("ItemFn", 10, "f") EXCEPT !.abi = "C", !.decl = <<"a">>]
      [] c \in {"trait", "trait_obj"} ->
           [Item("ItemTrait", 10, "Tr")
               EXCEPT !.trait_items = trait_items_of, !.trait_ref = <<<<"trait_ref", 10>>>>,
                      !.associated_type_names = <<"Out", "In">>,
                      !.super_predicates = <<a_predicate>>,
                      !.extension_impls = <<[krate |-> 1, node |-> 7]>>,
                      !.inherent_impls = impls, !.paren_sugar = TRUE]
      [] c = "extern_crate" -> Item("ItemExternCrate", 10, "std")
      [] c = "use" -> Item("ItemUse", 10, "")
      [] c = "mac" -> Item("ItemMac", 10, "")

\* the second item: an inherent impl of the subject when it is a type (one
\* without members for the choice "trait_obj"), a constant otherwise
second_methods ==
    <<AssocItem("MethodTraitItem", "MethodImplItem", 41, "new", "StaticExplicitSelfCategory"),
      AssocItem("ConstTraitItem", "ConstImplItem", 42, "ZERO", "StaticExplicitSelfCategory")>>

is_type_choice(c) == c \in {"enum", "struct", "newtype", "unit_struct", "trait", "trait_obj"}

second_item(c) ==
    IF is_type_choice(c)
    THEN IF c = "trait_obj" THEN Item("ItemImpl", 40, "")
         ELSE [Item("ItemImpl", 40, "") EXCEPT !.impl_items = second_methods, !.ast_items = 2]
    ELSE [Item("ItemConst", 40, "Z") EXCEPT !.vis = "Inherited"]

RECURSIVE nest(_, _)
nest(items, d) ==
    IF d = 0 THEN items
    ELSE nest(<<[Item("ItemMod", d, "m")
                    EXCEPT !.md = [items |-> items, stab |-> "None"],
                           !.vis = IF d % 2 = 1 THEN "Public" ELSE "Inherited"]>>,
              d - 1)

\* the trait that the impl of choice "local_trait_impl" implements
local_trait == [Item("ItemTrait", 50, "Lt") EXCEPT !.trait_ref = <<<<"trait_ref", 50>>>>]

crate_of(c, d, second) ==
    [module |->
        [items |-> nest(<<subject(c, IF second /\ is_type_choice(c)
                                     THEN <<local_def(40)>> ELSE <<>>)>>
                        \o (IF second THEN <<second_item(c)>> ELSE <<>>)
                        \o (IF c = "local_trait_impl" THEN <<local_trait>> ELSE <<>>), d),
         stab |-> "None"]]

\* the path of module id of the crate: the modules 1 .. id, each named "m"
mod_path_of(id) == [i \in 1..id |-> [elem |-> "PathMod", name |-> "m"]]

\* the methods of the inherent impls of a type of another crate
extern_methods ==
    <<[AssocItem("MethodTraitItem", "MethodImplItem", 5, "with_capacity",
                 "StaticExplicitSelfCategory") EXCEPT !.def_id = [krate |-> 1, node |-> 5]]>>

\* a module's reexports: the subject, under its own name or under another,
\* and two items of another crate under their own, the second of which has
\* the node number of the subject.  The field item is what tcx.map has for
\* the node number of the export's def id: <<>> unless that node is an item.
exports_of(c, d, second, renamed) ==
    <<[name |-> IF renamed THEN "alias" ELSE subject(c, <<>>).name,
       def_id |-> local_def(10),
       item |-> IF c \in {"foreign_mod", "intrinsics", "default_impl", "impl",
                          "trait_impl", "local_trait_impl", "use", "mac"}
                THEN <<>>
                ELSE <<[name |-> subject(c, <<>>).name,
                        path |-> Append(mod_path_of(d), path_elem(subject(c, <<>>)))]>>,
       base_methods |-> IF second /\ is_type_choice(c)
                        THEN <<IF c = "trait_obj" THEN <<>> ELSE second_methods>>
                        ELSE <<>>,
       trait_methods |-> IF c \in {"trait", "trait_obj"} THEN <<trait_items_of>> ELSE <<>>],
      [name |-> "Vec", def_id |-> [krate |-> 1, node |-> 3], item |-> <<>>,
       base_methods |-> <<extern_methods>>, trait_methods |-> <<>>],
      [name |-> "HashMap", def_id |-> [krate |-> 1, node |-> 10],
       item |-> <<[name |-> subject(c, <<>>).name,
                   path |-> Append(mod_path_of(d), path_elem(subject(c, <<>>)))]>>,
       base_methods |-> <<extern_methods>>, trait_methods |-> <<>>]>>

InitItems ==
    /\ pc = "encode_info_for_items"
    /\ \E c \in ItemChoices, d \in 0..MaxDepth, second \in BOOLEAN,
          symbols \in BOOLEAN, reexported \in BOOLEAN, renamed \in BOOLEAN,
          exporter \in 0..MaxDepth :
          /\ exporter <= d
          /\ renamed => reexported
          /\ exporter > 0 => reexported
          /\ args = [ecx |-> [item_symbols |-> IF symbols THEN 0..MaxNodeId ELSE {},
                              sip |-> ItemSip,
                              reexports |->
                                  [id \in 0..MaxNodeId |->
                                      IF reexported /\ id = exporter
                                      THEN exports_of(c, d, second, renamed)
                                      ELSE <<>>]],
                     krate |-> crate_of(c, d, second)]
    /\ rbml_w = new_writer(u64_of(0))
    /\ index = <<>>
    /\ todo = <<>>
    /\ ret = <<>>

\* lines 1606-1621, up to the first visit
EncodeInfoForItemsEnter ==
    /\ pc = "encode_info_for_items"
    /\ LET e == encode_root_mod(start_tag(rbml_w, "tag_items_data"), args.ecx, args.krate)
       IN  /\ rbml_w' = e.w
           /\ index' = e.index
    /\ todo' = walk_crate(args.krate)
    /\ pc' = "walk_crate"
    /\ UNCHANGED <<args, ret>>

VisitItem ==
    /\ pc = "walk_crate"
    /\ todo # <<>>
    /\ Head(todo).visit = "item"
    /\ LET e == my_visit_item([w |-> rbml_w, index |-> index], args.ecx, Head(todo))
       IN  /\ rbml_w' = e.w
           /\ index' = e.index
           /\ pc' = IF e.w.st = "ok" THEN "walk_crate" ELSE "aborted"
    /\ todo' = Tail(todo)
    /\ UNCHANGED <<args, ret>>

VisitForeignItem ==
    /\ pc = "walk_crate"
    /\ todo # <<>>
    /\ Head(todo).visit = "foreign_item"
    /\ LET e == my_visit_foreign_item([w |-> rbml_w, index |-> index], args.ecx, Head(todo))
       IN  /\ rbml_w' = e.w
           /\ index' = e.index
           /\ pc' = IF e.w.st = "ok" THEN "walk_crate" ELSE "aborted"
    /\ todo' = Tail(todo)
    /\ UNCHANGED <<args, ret>>

\* lines 1627-1628
EncodeInfoForItemsReturn ==
    /\ pc = "walk_crate"
    /\ todo = <<>>
    /\ rbml_w' = end_tag(rbml_w)
    /\ ret' = index
    /\ pc' = "done"
    /\ UNCHANGED <<args, index, todo>>

NextItems ==
    \/ EncodeInfoForItemsEnter
    \/ VisitItem
    \/ VisitForeignItem
    \/ EncodeInfoForItemsReturn

SpecItems == InitItems /\ [][NextItems]_vars

(***************************************************************************)
(* The crate-level sections of encode_metadata_inner.  What they read from *)
(* outside this file is given by the context: link_meta, the target triple,*)
(* the dependency formats, the crate store, the language items, the        *)
(* session's plugin registrar and codemap, and the reachable set in the    *)
(* order its iterator yields it.                                           *)
(***************************************************************************)
encode_hash(w, hash) == wr_tagged(w, "tag_crate_hash", hash)

encode_crate_name(w, crate_name) == wr_tagged(w, "tag_crate_crate_name", crate_name)

encode_crate_triple(w, triple) == wr_tagged(w, "tag_crate_triple", triple)

DigitChars == <<"0", "1", "2", "3", "4", "5", "6", "7", "8", "9">>

\* format!("{}:{}", i + 1, kind) for the slot at 0-based position i
format_slot(i, kind) ==
    [k \in 1..Len(to_string(u64_of(i + 1))) |-> DigitChars[to_string(u64_of(i + 1))[k] + 1]]
    \o <<":", IF kind = "RequireDynamic" THEN "d" ELSE "s">>

\* the filter_map over arr.iter().enumerate(), from 0-based position i on
RECURSIVE format_slots(_, _)
format_slots(arr, i) ==
    IF i >= Len(arr) THEN <<>>
    ELSE (IF arr[i + 1] = "None" THEN <<>> ELSE <<format_slot(i, arr[i + 1])>>)
         \o format_slots(arr, i + 1)

\* s.connect(",")
RECURSIVE connect(_, _)
connect(s, sep) ==
    IF s = <<>> THEN <<>>
    ELSE IF Len(s) = 1 THEN s[1]
    ELSE s[1] \o <<sep>> \o connect(Tail(s), sep)

\* ecx.dependency_formats is what the map has for CrateTypeDylib: <<>> for
\* None, <<arr>> for Some(arr)
encode_dylib_dependency_formats(w, ecx) ==
    IF ecx.dependency_formats # <<>>
    THEN wr_tagged(w, "tag_dylib_dependency_formats",
                   connect(format_slots(ecx.dependency_formats[1], 0), ","))
    ELSE wr_tagged(w, "tag_dylib_dependency_formats", <<>>)

\* the local language items from 0-based position i on
RECURSIVE encode_each_lang_item(_, _, _)
encode_each_lang_item(w, items, i) ==
    IF i >= Len(items) \/ w.st # "ok" THEN w
    ELSE encode_each_lang_item(
             IF items[i + 1] # <<>> /\ items[i + 1][1].krate = 0
             THEN end_tag(
                    wr_tagged(
                      wr_tagged(start_tag(w, "tag_lang_items_item"),
                                "tag_lang_items_item_id", i),
                      "tag_lang_items_item_node_id",
                      items[i + 1][1].node))
             ELSE w,
             items, i + 1)

RECURSIVE encode_missing_lang_items(_, _)
encode_missing_lang_items(w, missing) ==
    IF missing = <<>> \/ w.st # "ok" THEN w
    ELSE encode_missing_lang_items(wr_tagged(w, "tag_lang_items_missing", Head(missing)),
                                   Tail(missing))

encode_lang_items(w, ecx) ==
    IF w.st # "ok" THEN w ELSE
    end_tag(
      encode_missing_lang_items(
        encode_each_lang_item(start_tag(w, "tag_lang_items"), ecx.lang_items.items, 0),
        ecx.lang_items.missing))

\* tcx.lang_items.drop_trait(): the table's entry for the Drop trait
drop_trait(ecx) == ecx.lang_items.items[ecx.lang_items.drop_trait_item + 1]

RECURSIVE encode_each_native_library(_, _)
encode_each_native_library(w, libs) ==
    IF libs = <<>> \/ w.st # "ok" THEN w
    ELSE encode_each_native_library(
             IF Head(libs).kind = "NativeStatic" THEN w
             ELSE end_tag(
                    wr_tagged(
                      wr_tagged(start_tag(w, "tag_native_libraries_lib"),
                                "tag_native_libraries_kind", Head(libs).kind),
                      "tag_native_libraries_name",
                      Head(libs).name)),
             Tail(libs))

encode_native_libraries(w, ecx) ==
    IF w.st # "ok" THEN w ELSE
    end_tag(encode_each_native_library(start_tag(w, "tag_native_libraries"),
                                       ecx.used_libraries))

encode_plugin_registrar_fn(w, ecx) ==
    IF ecx.plugin_registrar_fn # <<>>
    THEN wr_tagged(w, "tag_plugin_registrar_fn", ecx.plugin_registrar_fn[1])
    ELSE w

\* filemap.encode(rbml_w) writes the filemap's own encoding
RECURSIVE encode_each_filemap(_, _)
encode_each_filemap(w, files) ==
    IF files = <<>> \/ w.st # "ok" THEN w
    ELSE encode_each_filemap(
             IF Head(files).lines = 0 \/ Head(files).is_imported THEN w
             ELSE end_tag(write_all(start_tag(w, "tag_codemap_filemap"),
                                    <<"filemap", Head(files).name, Head(files).lines>>)),
             Tail(files))

encode_codemap(w, ecx) ==
    IF w.st # "ok" THEN w ELSE
    end_tag(encode_each_filemap(start_tag(w, "tag_codemap"), ecx.codemap))

RECURSIVE encode_each_macro_def(_, _)
encode_each_macro_def(w, defs) ==
    IF defs = <<>> \/ w.st # "ok" THEN w
    ELSE encode_each_macro_def(
             end_tag(
               wr_tagged(
                 encode_attributes(
                   encode_name(start_tag(w, "tag_macro_def"), Head(defs).name),
                   Head(defs).attrs),
                 "tag_macro_def_body",
                 Head(defs).body)),
             Tail(defs))

encode_macro_defs(w, krate) ==
    IF w.st # "ok" THEN w ELSE
    end_tag(encode_each_macro_def(start_tag(w, "tag_macro_defs"), krate.exported_macros))

\* StructFieldVisitor::visit_struct_field
visit_struct_field(w, field) ==
    IF w.st # "ok" THEN w ELSE
    end_tag(
      encode_attributes(
        wr_tagged(start_tag(w, "tag_struct_field"), "tag_struct_field_id", field.id.node),
        field.attrs))

RECURSIVE visit_struct_fields(_, _)
visit_struct_fields(w, fields) ==
    IF fields = <<>> \/ w.st # "ok" THEN w
    ELSE visit_struct_fields(visit_struct_field(w, Head(fields)), Tail(fields))

RECURSIVE visit_variant_fields(_, _)
visit_variant_fields(w, variants) ==
    IF variants = <<>> \/ w.st # "ok" THEN w
    ELSE visit_variant_fields(visit_struct_fields(w, Head(variants).fields), Tail(variants))

\* visit::walk_crate with the default visit_item: the fields of every struct
\* and of every struct-like variant, in the order of the walk
RECURSIVE walk_struct_fields(_, _)
walk_struct_fields(w, items) ==
    IF items = <<>> \/ w.st # "ok" THEN w
    ELSE walk_struct_fields(
             CASE Head(items).kind = "ItemMod" -> walk_struct_fields(w, Head(items).md.items)
               [] Head(items).kind = "ItemStruct" ->
                    visit_struct_fields(w, Head(items).fields)
               [] Head(items).kind = "ItemEnum" ->
                    visit_variant_fields(w, Head(items).variants)
               [] OTHER -> w,
             Tail(items))

encode_struct_field_attrs(w, krate) ==
    IF w.st # "ok" THEN w ELSE
    end_tag(walk_struct_fields(start_tag(w, "tag_struct_fields"), krate.module.items))

\* every impl of a trait taken as eagerly loaded
impl_is_eager_always(ecx, item) == item.kind = "ItemImpl" /\ item.of_trait # <<>>

\* lines 1919-1925: item.of_trait is the def id the def_map has for the
\* impl's trait reference, <<>> for an inherent impl
impl_is_eager(ecx, item) ==
    /\ item.kind = "ItemImpl"
    /\ item.of_trait # <<>>
    /\ \/ item.of_trait = drop_trait(ecx)
       \/ item.of_trait[1].krate # 0

\* ImplVisitor::visit_item, then visit::walk_item into the items of a module
RECURSIVE ImplVisitor_visit_items(_, _, _)
ImplVisitor_visit_items(w, ecx, items) ==
    IF items = <<>> \/ w.st # "ok" THEN w
    ELSE ImplVisitor_visit_items(
             IF Head(items).kind = "ItemMod"
             THEN ImplVisitor_visit_items(w, ecx, Head(items).md.items)
             ELSE IF impl_is_eager(ecx, Head(items))
             THEN end_tag(
                    wr_tagged(
                      encode_def_id(start_tag(w, "tag_impls_impl"),
                                    local_def(Head(items).id)),
                      "tag_impls_impl_trait_def_id",
                      def_to_u64(Head(items).of_trait[1])))
             ELSE w,
             ecx, Tail(items))

encode_impls(w, ecx, krate) ==
    IF w.st # "ok" THEN w ELSE
    end_tag(ImplVisitor_visit_items(start_tag(w, "tag_impls"), ecx, krate.module.items))

\* lines 1967-1976
RECURSIVE encode_crate_items(_, _)
encode_crate_items(w, items) ==
    IF items = <<>> \/ w.st # "ok" THEN w
    ELSE encode_crate_items(
             each_auxiliary_node_id(
                 wr_tagged(w, "tag_mod_child", def_to_u64(local_def(Head(items).id))),
                 Head(items)),
             Tail(items))

encode_misc_info(w, ecx, krate) ==
    IF w.st # "ok" THEN w ELSE
    end_tag(
      end_tag(
        encode_reexports(
          encode_crate_items(
            start_tag(start_tag(w, "tag_misc_info"), "tag_misc_info_crate_items"),
            krate.module.items),
          ecx, 0, <<>>)))

\* ecx.tcx.map.find(id), where it yields NodeItem(i): <<i>>, else <<>>
RECURSIVE find_item(_, _)
find_item(items, id) ==
    IF items = <<>> THEN <<>>
    ELSE IF Head(items).id = id THEN <<Head(items)>>
    ELSE IF Head(items).kind = "ItemMod" /\ find_item(Head(items).md.items, id) # <<>>
    THEN find_item(Head(items).md.items, id)
    ELSE find_item(Tail(items), id)

is_reachable_extern_fn(krate, id) ==
    /\ find_item(krate.module.items, id) # <<>>
    /\ find_item(krate.module.items, id)[1].kind = "ItemFn"
    /\ find_item(krate.module.items, id)[1].abi # "Rust"
    /\ find_item(krate.module.items, id)[1].tps_len = 0

RECURSIVE encode_each_reachable(_, _, _)
encode_each_reachable(w, krate, reachable) ==
    IF reachable = <<>> \/ w.st # "ok" THEN w
    ELSE encode_each_reachable(
             IF is_reachable_extern_fn(krate, Head(reachable))
             THEN wr_tagged(w, "tag_reachable_extern_fn_id", Head(reachable))
             ELSE w,
             krate, Tail(reachable))

encode_reachable_extern_fns(w, ecx, krate) ==
    IF w.st # "ok" THEN w ELSE
    end_tag(encode_each_reachable(start_tag(w, "tag_reachable_extern_fns"), krate,
                                  ecx.reachable))

\* lines 2138-2145 with the triple and the hash exchanged
encode_crate_header_swapped(w, ecx) ==
    encode_dylib_dependency_formats(
      encode_crate_triple(
        encode_hash(
          encode_crate_name(w, ecx.link_meta.crate_name),
          ecx.link_meta.crate_hash),
        ecx.target_triple),
      ecx)

\* lines 2138-2145
encode_crate_header(w, ecx) ==
    encode_dylib_dependency_formats(
      encode_hash(
        encode_crate_triple(
          encode_crate_name(w, ecx.link_meta.crate_name),
          ecx.target_triple),
        ecx.link_meta.crate_hash),
      ecx)

\* lines 2198-2200
encode_items_index(w, items_index, ecx) == end_tag(encode_index(w, items_index, ecx.sip))

(***************************************************************************)
(* The crates of the whole encode: the crates of the items specification   *)
(* without a second item, with crate attributes and exported macros, and a *)
(* context that is either bare or has something for every section.  The    *)
(* Drop trait is unknown, a trait of another crate, or the local trait 50. *)
(***************************************************************************)
DropChoices == {"none", "extern", "local"}

StoreChoices == {<<>>, <<crate_dep(1), crate_dep(2)>>, <<crate_dep(2), crate_dep(1)>>,
                 <<crate_dep(2)>>}

lang_items_of(drop) ==
    [items |-> <<<<[krate |-> 1, node |-> 2]>>,
                 CASE drop = "none" -> <<>>
                   [] drop = "extern" -> <<extern_trait>>
                   [] drop = "local" -> <<local_def(50)>>,
                 <<>>>>,
     drop_trait_item |-> 1,
     missing |-> IF drop = "none" THEN <<2>> ELSE <<>>]

ecx_of(c, d, drop, deps, full) ==
    [item_symbols |-> 0..MaxNodeId,
     sip |-> ItemSip,
     reexports |-> [id \in 0..MaxNodeId |->
                       IF full /\ id = 0 THEN exports_of(c, d, FALSE, TRUE) ELSE <<>>],
     link_meta |-> [crate_name |-> "unit", crate_hash |-> "h0"],
     target_triple |-> "x86_64-unknown-linux-gnu",
     dependency_formats |->
         IF full THEN <<[i \in 1..Len(deps) |->
                            IF i = 1 THEN "None" ELSE "RequireDynamic"]
                        \o <<"RequireStatic">>>>
         ELSE <<>>,
     cstore |-> deps,
     lang_items |-> lang_items_of(drop),
     used_libraries |->
         IF full THEN <<[name |-> "m", kind |-> "NativeUnknown"],
                        [name |-> "a", kind |-> "NativeStatic"],
                        [name |-> "Cocoa", kind |-> "NativeFramework"]>>
         ELSE <<>>,
     plugin_registrar_fn |-> IF full THEN <<10>> ELSE <<>>,
     codemap |->
         IF full THEN <<[name |-> "lib.rs", lines |-> 3, is_imported |-> FALSE],
                        [name |-> "empty.rs", lines |-> 0, is_imported |-> FALSE],
                        [name |-> "dep.rs", lines |-> 2, is_imported |-> TRUE]>>
         ELSE <<>>,
     reachable |-> IF full THEN <<40, 10, 1>> ELSE <<>>]

whole_crate_of(c, d, full) ==
    [module |-> crate_of(c, d, FALSE).module,
     attrs |-> IF full THEN <<Attr(MetaWord("no_std"))>> ELSE <<>>,
     exported_macros |->
         IF full THEN <<[name |-> "vec", attrs |-> <<Attr(MetaWord("macro_export"))>>,
                         body |-> "( $ x : expr ) => ( $ x )"]>>
         ELSE <<>>]

InitCrate ==
    /\ pc = "encode_metadata_inner"
    /\ \E c \in ItemChoices, d \in 0..MaxDepth, drop \in DropChoices,
          deps \in StoreChoices, full \in BOOLEAN :
          /\ drop = "local" => c = "local_trait_impl"
          /\ args = [ecx |-> ecx_of(c, d, drop, deps, full),
                     krate |-> whole_crate_of(c, d, full),
                     run |-> 1,
                     prev |-> <<>>]
    /\ rbml_w = new_writer(u64_of(0))
    /\ index = <<>>
    /\ todo = <<>>
    /\ ret = <<>>

\* lines 2136-2145
EncodeCrateHeader ==
    /\ pc = "encode_metadata_inner"
    /\ rbml_w' = encode_crate_header(rbml_w, args.ecx)
    /\ pc' = "attributes"
    /\ UNCHANGED <<args, index, todo, ret>>

\* line 2148
EncodeCrateAttributes ==
    /\ pc = "attributes"
    /\ rbml_w' = encode_attributes(rbml_w, args.krate.attrs)
    /\ pc' = "crate_deps"
    /\ UNCHANGED <<args, index, todo, ret>>

\* line 2152
EncodeCrateDeps ==
    /\ pc = "crate_deps"
    /\ rbml_w' = encode_crate_deps(rbml_w, args.ecx.cstore)
    /\ pc' = IF rbml_w'.st = "ok" THEN "lang_items" ELSE "aborted"
    /\ UNCHANGED <<args, index, todo, ret>>

\* line 2157
EncodeLangItems ==
    /\ pc = "lang_items"
    /\ rbml_w' = encode_lang_items(rbml_w, args.ecx)
    /\ pc' = "native_libraries"
    /\ UNCHANGED <<args, index, todo, ret>>

\* line 2162
EncodeNativeLibraries ==
    /\ pc = "native_libraries"
    /\ rbml_w' = encode_native_libraries(rbml_w, args.ecx)
    /\ pc' = "plugin_registrar_fn"
    /\ UNCHANGED <<args, index, todo, ret>>

\* line 2167
EncodePluginRegistrarFn ==
    /\ pc = "plugin_registrar_fn"
    /\ rbml_w' = encode_plugin_registrar_fn(rbml_w, args.ecx)
    /\ pc' = "codemap"
    /\ UNCHANGED <<args, index, todo, ret>>

\* line 2172
EncodeCodemap ==
    /\ pc = "codemap"
    /\ rbml_w' = encode_codemap(rbml_w, args.ecx)
    /\ pc' = "macro_defs"
    /\ UNCHANGED <<args, index, todo, ret>>

\* line 2177
EncodeMacroDefs ==
    /\ pc = "macro_defs"
    /\ rbml_w' = encode_macro_defs(rbml_w, args.krate)
    /\ pc' = "impls"
    /\ UNCHANGED <<args, index, todo, ret>>

\* line 2182
EncodeImpls ==
    /\ pc = "impls"
    /\ rbml_w' = encode_impls(rbml_w, args.ecx, args.krate)
    /\ pc' = "misc_info"
    /\ UNCHANGED <<args, index, todo, ret>>

\* lines 2187-2188
EncodeMiscInfo ==
    /\ pc = "misc_info"
    /\ rbml_w' = encode_reachable_extern_fns(
                     encode_misc_info(rbml_w, args.ecx, args.krate), args.ecx, args.krate)
    /\ pc' = IF rbml_w'.st = "ok" THEN "items" ELSE "aborted"
    /\ UNCHANGED <<args, index, todo, ret>>

\* lines 2192-2194: the items document is opened and encode_info_for_items
\* entered
StartItems ==
    /\ pc = "items"
    /\ rbml_w' = start_tag(rbml_w, "tag_items")
    /\ pc' = "encode_info_for_items"
    /\ UNCHANGED <<args, index, todo, ret>>

\* lines 2198-2200, on the index that encode_info_for_items returned
EncodeItemsIndex ==
    /\ pc = "done"
    /\ Len(rbml_w.stack) = 2
    /\ rbml_w.stack[2].tag = "tag_items"
    /\ rbml_w' = encode_items_index(rbml_w, ret, args.ecx)
    /\ pc' = IF rbml_w'.st = "ok" THEN "struct_field_attrs" ELSE "aborted"
    /\ UNCHANGED <<args, index, todo, ret>>

\* line 2202
EncodeStructFieldAttrs ==
    /\ pc = "struct_field_attrs"
    /\ rbml_w' = encode_struct_field_attrs(rbml_w, args.krate)
    /\ pc' = "encode_metadata"
    /\ UNCHANGED <<args, index, todo, ret>>

\* lines 2049-2077: the blob is the length field and the body written
EncodeMetadataReturn ==
    /\ pc = "encode_metadata"
    /\ Len(rbml_w.stack) = 1
    /\ ret' = [framing |-> encode_metadata(mark_stable_position(rbml_w), 0),
               body |-> docs(rbml_w)]
    /\ pc' = "returned"
    /\ UNCHANGED <<args, rbml_w, index, todo>>

\* encode_metadata is called once more for the same crate and context; the
\* crate store may enumerate its crates in another order
EncodeMetadataAgain ==
    /\ pc = "returned"
    /\ args.run = 1
    /\ \E p \in [1..Len(args.ecx.cstore) -> 1..Len(args.ecx.cstore)] :
          /\ \A i, j \in DOMAIN p : i # j => p[i] # p[j]
          /\ args' = [args EXCEPT !.run = 2, !.prev = ret,
                                  !.ecx.cstore = [i \in DOMAIN p |-> args.ecx.cstore[p[i]]]]
    /\ rbml_w' = new_writer(u64_of(0))
    /\ index' = <<>>
    /\ todo' = <<>>
    /\ ret' = <<>>
    /\ pc' = "encode_metadata_inner"

NextCrate ==
    \/ EncodeCrateHeader
    \/ EncodeCrateAttributes
    \/ EncodeCrateDeps
    \/ EncodeLangItems
    \/ EncodeNativeLibraries
    \/ EncodePluginRegistrarFn
    \/ EncodeCodemap
    \/ EncodeMacroDefs
    \/ EncodeImpls
    \/ EncodeMiscInfo
    \/ StartItems
    \/ EncodeInfoForItemsEnter
    \/ VisitItem
    \/ VisitForeignItem
    \/ EncodeInfoForItemsReturn
    \/ EncodeItemsIndex
    \/ EncodeStructFieldAttrs
    \/ EncodeMetadataReturn
    \/ EncodeMetadataAgain

SpecCrate == InitCrate /\ [][NextCrate]_vars

(***************************************************************************)
(* The records of the items section as a reader finds them: every          *)
(* tag_items_data_item document, in document order, those inside another   *)
(* record included.  While the section is being written its documents are  *)
(* those of the open tag_items_data document.                              *)
(***************************************************************************)
is_record(nd) == nd.tag = "tag_items_data_item"

RECURSIVE all_records(_)
all_records(kids) ==
    IF kids = <<>> THEN <<>>
    ELSE (IF is_record(Head(kids))
          THEN <<Head(kids)>> \o all_records(Head(kids).kids) ELSE <<>>)
         \o all_records(Tail(kids))

records_written ==
    all_records(IF pc = "done" THEN docs(rbml_w)[1].kids ELSE rbml_w.stack[2].kids)

record_key(r) == field_of(r, "tag_def_id").val

entries_made == IF pc = "done" THEN ret ELSE index

\* C2: at every point of encode_info_for_items, and in the index it
\* returns, the entries are the records written, one for one in the order
\* written: entry i holds the position at which record i starts and the
\* identity that record i carries, and no two entries share a key or a
\* position.
C2_OneEntryPerRecord ==
    pc \in {"walk_crate", "done"} =>
      /\ Len(entries_made) = Len(records_written)
      /\ \A i \in DOMAIN records_written :
            /\ has_field(records_written[i], "tag_def_id")
            /\ entries_made[i].pos = records_written[i].pos
            /\ entries_made[i].val = record_key(records_written[i])
      /\ \A i, j \in DOMAIN entries_made :
            i # j => /\ entries_made[i].val # entries_made[j].val
                     /\ entries_made[i].pos # entries_made[j].pos

\* an encode that has returned an index of six or more entries, one of them
\* for a record written inside another record
C2_Witness ==
    /\ pc = "done"
    /\ Len(ret) >= 6
    /\ Len(ret) = Len(records_written)
    /\ \E i \in DOMAIN docs(rbml_w)[1].kids :
          /\ is_record(docs(rbml_w)[1].kids[i])
          /\ \E j \in DOMAIN docs(rbml_w)[1].kids[i].kids :
                is_record(docs(rbml_w)[1].kids[i].kids[j])

(***************************************************************************)
(* What each node id of the crate declares: an item (by its kind), a       *)
(* "field", a "variant", a "ctor", a "foreign_item", an "impl_item" or a   *)
(* "trait_item".                                                           *)
(***************************************************************************)
RECURSIVE declarations_of(_)
declarations_of(items) ==
    UNION {LET item == items[n]
           IN  {[id |-> item.id, kind |-> item.kind]}
               \cup declarations_of(item.md.items)
               \cup {[id |-> item.items[i].id, kind |-> "foreign_item"] :
                        i \in DOMAIN item.items}
               \cup {[id |-> item.variants[i].id, kind |-> "variant"] :
                        i \in DOMAIN item.variants}
               \cup UNION {{[id |-> item.variants[i].fields[j].id.node, kind |-> "field"] :
                               j \in DOMAIN item.variants[i].fields} :
                           i \in DOMAIN item.variants}
               \cup {[id |-> item.fields[i].id.node, kind |-> "field"] :
                        i \in DOMAIN item.fields}
               \cup {[id |-> item.ctor[i].id, kind |-> "ctor"] : i \in DOMAIN item.ctor}
               \cup {[id |-> item.impl_items[i].id, kind |-> "impl_item"] :
                        i \in DOMAIN item.impl_items}
               \cup {[id |-> item.trait_items[i].id, kind |-> "trait_item"] :
                        i \in DOMAIN item.trait_items}
           : n \in DOMAIN items}

declarations(krate) == {[id |-> 0, kind |-> "ItemMod"]} \cup declarations_of(krate.module.items)

decl_kind(r) == (CHOOSE d \in declarations(args.krate) : d.id = record_key(r)[4]).kind

opens_with(r, tags) ==
    /\ Len(r.kids) >= Len(tags)
    /\ \A i \in DOMAIN tags : r.kids[i].tag = tags[i]

\* where the first field with this tag stands among the record's own fields
first_field(r, tag) == CHOOSE i \in DOMAIN r.kids :
                          /\ r.kids[i].tag = tag
                          /\ \A j \in 1..(i - 1) : r.kids[j].tag # tag

RECURSIVE trait_items_under(_)
trait_items_under(items) ==
    UNION {{items[n].trait_items[i] : i \in DOMAIN items[n].trait_items}
           \cup trait_items_under(items[n].md.items) : n \in DOMAIN items}

\* the item of a trait that the record r is of
trait_item_of(r) ==
    CHOOSE t \in trait_items_under(args.krate.module.items) :
       def_to_u64(t.def_id) = record_key(r)

\* how the record of the trait item t opens: the trait, the stability when
\* t has one, then identity and name for a method, name and identity for an
\* associated constant or type
trait_item_opening(t) ==
    <<"tag_items_data_parent_item">>
    \o (IF t.stab = "None" THEN <<>> ELSE <<"tag_items_data_item_stability">>)
    \o (IF t.sort = "MethodTraitItem"
        THEN <<"tag_def_id", "tag_paths_data_name">>
        ELSE <<"tag_paths_data_name", "tag_def_id">>)

\* C10: every record carries its identity and a kind tag among its own
\* fields, and opens by what it declares: an item, a variant or a
\* constructor with identity then kind tag, generics and type next for a
\* static, constant, function, type alias, struct, impl or constructor; a
\* field with kind tag, name, generics, type and then identity; a foreign
\* item with identity, visibility, kind tag; an item of an impl with
\* identity then name, its kind tag after its visibility; an item of a trait
\* with the identity of the trait, then the stability when it has one, then
\* identity and name for a method, name and identity for an associated
\* constant or type, its kind tag after those.
C10_RecordOpenings ==
    pc \in {"walk_crate", "done"} =>
      \A n \in DOMAIN records_written :
         LET r == records_written[n]
         IN  /\ has_field(r, "tag_def_id")
             /\ has_field(r, "tag_items_data_item_family")
             /\ CASE decl_kind(r) = "field" ->
                       opens_with(r, <<"tag_items_data_item_family", "tag_paths_data_name",
                                       "tag_item_generics", "tag_items_data_item_type",
                                       "tag_def_id">>)
                  [] decl_kind(r) = "foreign_item" ->
                       opens_with(r, <<"tag_def_id", "tag_items_data_item_visibility",
                                       "tag_items_data_item_family">>)
                  [] decl_kind(r) = "impl_item" ->
                       /\ opens_with(r, <<"tag_def_id", "tag_paths_data_name">>)
                       /\ has_field(r, "tag_items_data_item_visibility")
                       /\ first_field(r, "tag_items_data_item_visibility") > 2
                       /\ first_field(r, "tag_items_data_item_family")
                             > first_field(r, "tag_items_data_item_visibility")
                  [] decl_kind(r) = "trait_item" ->
                       /\ opens_with(r, trait_item_opening(trait_item_of(r)))
                       /\ first_field(r, "tag_items_data_item_family")
                             > Len(trait_item_opening(trait_item_of(r)))
                       /\ has_field(r, "tag_items_data_item_stability")
                             <=> trait_item_of(r).stab # "None"
                  [] decl_kind(r) \in {"ItemStatic", "ItemConst", "ItemFn", "ItemTy",
                                       "ItemStruct", "ItemImpl", "ctor"} ->
                       opens_with(r, <<"tag_def_id", "tag_items_data_item_family",
                                       "tag_item_generics", "tag_items_data_item_type">>)
                  [] OTHER ->
                       opens_with(r, <<"tag_def_id", "tag_items_data_item_family">>)

\* a trait with an inherent impl after it, both encoded: records of items,
\* of the impl's items and of the trait's items, among these a method with a
\* stability, a method without one and an associated constant with one
C10_Witness ==
    /\ pc = "done"
    /\ \E n \in DOMAIN records_written :
          /\ decl_kind(records_written[n]) = "trait_item"
          /\ trait_item_of(records_written[n]).sort = "MethodTraitItem"
          /\ trait_item_of(records_written[n]).stab # "None"
          /\ opens_with(records_written[n],
                        <<"tag_items_data_parent_item", "tag_items_data_item_stability",
                          "tag_def_id", "tag_paths_data_name">>)
    /\ \E n \in DOMAIN records_written :
          /\ decl_kind(records_written[n]) = "trait_item"
          /\ trait_item_of(records_written[n]).sort = "MethodTraitItem"
          /\ trait_item_of(records_written[n]).stab = "None"
    /\ \E n \in DOMAIN records_written :
          /\ decl_kind(records_written[n]) = "trait_item"
          /\ trait_item_of(records_written[n]).sort = "ConstTraitItem"
          /\ trait_item_of(records_written[n]).stab # "None"
    /\ \E n \in DOMAIN records_written : decl_kind(records_written[n]) = "impl_item"
    /\ \E n \in DOMAIN records_written : decl_kind(records_written[n]) = "ItemTrait"

\* C10 as claimed: every record opens with its identity, then its kind tag,
\* then its generics or type when it has them.
C10_IdentityThenKind ==
    pc \in {"walk_crate", "done"} =>
      \A n \in DOMAIN records_written :
         LET r == records_written[n]
         IN  /\ opens_with(r, <<"tag_def_id", "tag_items_data_item_family">>)
             /\ (has_field(r, "tag_item_generics") \/ has_field(r, "tag_items_data_item_type"))
                   => r.kids[3].tag \in {"tag_item_generics", "tag_items_data_item_type"}

(***************************************************************************)
(* The reexport entries of the items section, and for an export the        *)
(* methods a consumer reaches through it: those of the inherent impls of   *)
(* what it exports, or else those of the trait it exports.                 *)
(***************************************************************************)
reexports_written ==
    UNION {{records_written[n].kids[i] : i \in {k \in DOMAIN records_written[n].kids :
                records_written[n].kids[k].tag = "tag_items_data_item_reexport"}} :
           n \in DOMAIN records_written}

reexport_recorded(exp) ==
    \E x \in reexports_written :
       field_of(x, "tag_items_data_item_reexport_def_id").val = def_to_u64(exp.def_id)

methods_through(exp) ==
    LET items == IF exp.base_methods # <<>> THEN exp.base_methods[1]
                 ELSE IF exp.trait_methods # <<>> THEN exp.trait_methods[1]
                 ELSE <<>>
    IN  {items[i] : i \in {k \in DOMAIN items : items[k].sort = "MethodTraitItem"}}

method_reexported(exp, m) ==
    \E x \in reexports_written :
       /\ field_of(x, "tag_items_data_item_reexport_def_id").val = def_to_u64(m.def_id)
       /\ field_of(x, "tag_items_data_item_reexport_name").val = <<exp.name, "::", m.name>>

declared_in(exp) == SubSeq(exp.item[1].path, 1, Len(exp.item[1].path) - 1)

\* C11: for every reexport of a local item that encode_reexports recorded,
\* the entries "<export name>::<method name>" are written when the export
\* name differs from the item's name or the item is declared in another
\* module than the exporting one, and are not written when the item is
\* reexported under its own name from the module that declares it.
C11_MethodsFollowReexport ==
    pc = "done" =>
      \A id \in 0..MaxDepth :
        \A n \in DOMAIN args.ecx.reexports[id] :
           LET exp == args.ecx.reexports[id][n]
           IN  (reexport_recorded(exp) /\ exp.item # <<>> /\ exp.def_id.krate = 0) =>
                 \A m \in methods_through(exp) :
                    IF exp.name # exp.item[1].name \/ declared_in(exp) # mod_path_of(id)
                    THEN method_reexported(exp, m)
                    ELSE ~method_reexported(exp, m)

(***************************************************************************)
(* The declarations of the crate that C12 to C15 speak of: its items at    *)
(* any depth, the methods of its impls (local when the impl writes them    *)
(* out) and the methods of its traits; and the record of a node id.        *)
(***************************************************************************)
RECURSIVE items_under(_)
items_under(items) ==
    UNION {{items[n]} \cup items_under(items[n].md.items) : n \in DOMAIN items}

all_items == items_under(args.krate.module.items)

impl_members ==
    UNION {{[m |-> it.impl_items[i], i |-> i, local |-> i <= it.ast_items, parent |-> it] :
               i \in DOMAIN it.impl_items} :
           it \in {x \in all_items : x.kind = "ItemImpl"}}

impl_methods == {d \in impl_members : d.m.sort = "MethodTraitItem"}

trait_methods ==
    UNION {{it.trait_items[i] : i \in {k \in DOMAIN it.trait_items :
                                         it.trait_items[k].sort = "MethodTraitItem"}} :
           it \in {x \in all_items : x.kind = "ItemTrait"}}

records_of(id) ==
    {n \in DOMAIN records_written : record_key(records_written[n]) = def_to_u64(local_def(id))}

record_of(id) == records_written[CHOOSE n \in records_of(id) : TRUE]

count_fields(nd, tag) == Cardinality({i \in DOMAIN nd.kids : nd.kids[i].tag = tag})

\* C12: after an encode, the record of every function that has a type
\* parameter or asks for inlining (#[inline] or #[inline(always)]), and of
\* every method an impl writes out whose type scheme has a type parameter or
\* that asks for inlining, holds an inlined body; and so does the trait-item record of every trait
\* method with a default body.
C12_InlinedBodies ==
    pc = "done" =>
      /\ \A it \in all_items :
            (it.kind = "ItemFn" /\ (it.tps_len > 0 \/ requests_inline(it.attrs))) =>
               /\ records_of(it.id) # {}
               /\ has_field(record_of(it.id), "tag_ast")
      /\ \A d \in impl_methods :
            (d.local /\ (d.m.scheme.generics.types # <<>> \/ requests_inline(d.m.attrs))) =>
               /\ records_of(d.m.id) # {}
               /\ has_field(record_of(d.m.id), "tag_ast")
      /\ \A m \in trait_methods :
            m.body =>
               /\ records_of(m.id) # {}
               /\ has_field(record_of(m.id), "tag_ast")

\* an encoded impl with a generic method and a method marked inline, both
\* written out in the impl and both with an inlined body
C12_Witness ==
    /\ pc = "done"
    /\ \E d \in impl_methods :
          /\ d.local /\ d.m.scheme.generics.types # <<>> /\ ~requests_inline(d.m.attrs)
          /\ has_field(record_of(d.m.id), "tag_ast")
    /\ \E d \in impl_methods :
          /\ d.local /\ d.m.scheme.generics.types = <<>> /\ requests_inline(d.m.attrs)
          /\ has_field(record_of(d.m.id), "tag_ast")

\* C13: after an encode, no record of a function or of a method whose
\* declaration has a type parameter holds a symbol, and the record of every
\* function without type parameters, and of every method without type
\* parameters that an impl writes out, holds exactly one.
C13_SymbolIffNotGeneric ==
    pc = "done" =>
      /\ \A it \in all_items :
            it.kind = "ItemFn" =>
               /\ records_of(it.id) # {}
               /\ count_fields(record_of(it.id), "tag_items_data_item_symbol")
                     = IF it.tps_len > 0 THEN 0 ELSE 1
      /\ \A d \in impl_methods :
            /\ records_of(d.m.id) # {}
            /\ d.m.scheme.generics.types # <<>> =>
                  count_fields(record_of(d.m.id), "tag_items_data_item_symbol") = 0
            /\ (d.m.scheme.generics.types = <<>> /\ d.local) =>
                  count_fields(record_of(d.m.id), "tag_items_data_item_symbol") = 1
      /\ \A m \in trait_methods :
            (records_of(m.id) # {} /\ m.scheme.generics.types # <<>>) =>
               count_fields(record_of(m.id), "tag_items_data_item_symbol") = 0

\* an encoded impl with a generic method, written without a symbol, and a
\* method without type parameters, written with one
C13_Witness ==
    /\ pc = "done"
    /\ \E d \in impl_methods :
          /\ d.local /\ d.m.scheme.generics.types # <<>>
          /\ count_fields(record_of(d.m.id), "tag_items_data_item_symbol") = 0
    /\ \E d \in impl_methods :
          /\ d.local /\ d.m.scheme.generics.types = <<>>
          /\ count_fields(record_of(d.m.id), "tag_items_data_item_symbol") = 1

field_vals(nd, tag) == {nd.kids[i].val : i \in {k \in DOMAIN nd.kids : nd.kids[k].tag = tag}}

\* C14: after an encode, the trait-item record of every method of a trait
\* carries the sort "p" and an inlined body when the method has a default
\* body in the trait, and the sort "r" and no inlined body when it has
\* none; its kind tag is that of a static method exactly when the method
\* has no receiver.
C14_TraitMethodMarkers ==
    pc = "done" =>
      \A m \in trait_methods :
         /\ records_of(m.id) # {}
         /\ field_vals(record_of(m.id), "tag_item_trait_item_sort")
               = IF m.body THEN {"p"} ELSE {"r"}
         /\ has_field(record_of(m.id), "tag_ast") <=> m.body
         /\ field_vals(record_of(m.id), "tag_items_data_item_family")
               = IF m.explicit_self = "StaticExplicitSelfCategory" THEN {"F"} ELSE {"h"}

\* an encoded trait with a method that has a default body, a required
\* method with a receiver and a required method without one
C14_Witness ==
    /\ pc = "done"
    /\ \E m \in trait_methods :
          m.body /\ "p" \in field_vals(record_of(m.id), "tag_item_trait_item_sort")
    /\ \E m \in trait_methods :
          /\ ~m.body /\ m.explicit_self # "StaticExplicitSelfCategory"
          /\ "r" \in field_vals(record_of(m.id), "tag_item_trait_item_sort")
    /\ \E m \in trait_methods :
          /\ m.explicit_self = "StaticExplicitSelfCategory"
          /\ "F" \in field_vals(record_of(m.id), "tag_items_data_item_family")

\* the records written for the members of an impl, in the order written
member_records(it) ==
    SelectSeq(records_written,
              LAMBDA r : \E i \in DOMAIN it.impl_items :
                            record_key(r) = def_to_u64(it.impl_items[i].def_id))

\* C15: after an encode, an impl with k members written out and n resolved
\* members has n member records, in resolved order, each with an entry of
\* the index at its position; member i carries what the source says of it
\* (its attribute list, and for a method its argument names) exactly when
\* i <= k, and a member after the k-th has no inlined body, no attribute
\* list and no symbol.
C15_ImplMembers ==
    pc = "done" =>
      \A it \in {x \in all_items : x.kind = "ItemImpl"} :
         /\ Len(member_records(it)) = Len(it.impl_items)
         /\ \A i \in DOMAIN it.impl_items :
               LET r == member_records(it)[i]
                   m == it.impl_items[i]
               IN  /\ record_key(r) = def_to_u64(m.def_id)
                   /\ \E n \in DOMAIN ret : ret[n].val = record_key(r) /\ ret[n].pos = r.pos
                   /\ has_field(r, "tag_attributes") <=> i <= it.ast_items
                   /\ m.sort = "MethodTraitItem" =>
                         (has_field(r, "tag_method_argument_names") <=> i <= it.ast_items)
                   /\ i > it.ast_items =>
                         /\ ~has_field(r, "tag_ast")
                         /\ ~has_field(r, "tag_items_data_item_symbol")

\* an encoded impl of a trait that writes out some of its members and
\* inherits the others, a method among each
C15_Witness ==
    /\ pc = "done"
    /\ \E it \in {x \in all_items : x.kind = "ItemImpl"} :
          /\ 0 < it.ast_items
          /\ it.ast_items < Len(it.impl_items)
          /\ Len(member_records(it)) = Len(it.impl_items)
          /\ \E i \in 1..it.ast_items : it.impl_items[i].sort = "MethodTraitItem"
          /\ \E i \in (it.ast_items + 1)..Len(it.impl_items) :
                it.impl_items[i].sort = "MethodTraitItem"

\* the elements of an index document, each as <<offset bytes, key bytes>>
index_elements(ix) ==
    UNION {{<<ix.kids[1].kids[b].kids[e].kids[1].val, ix.kids[1].kids[b].kids[e].kids[2].val>> :
               e \in DOMAIN ix.kids[1].kids[b].kids} :
           b \in DOMAIN ix.kids[1].kids}

count_index_elements(ix) ==
    Cardinality(UNION {{<<b, e>> : e \in DOMAIN ix.kids[1].kids[b].kids} :
                       b \in DOMAIN ix.kids[1].kids})

\* C16: after an encode, the record of every struct holds one index, whose
\* elements are those of the struct's fields and no others: one per field,
\* carrying the field's id and the position of the field's record, which
\* is the position the index of the whole unit has for that id; and the
\* two-hop lookup of a field's id in the struct's index yields that
\* position.
C16_StructFieldIndex ==
    pc = "done" =>
      \A it \in {x \in all_items : x.kind = "ItemStruct"} :
         /\ records_of(it.id) # {}
         /\ count_fields(record_of(it.id), "tag_index") = 1
         /\ LET ix == field_of(record_of(it.id), "tag_index")
            IN  /\ count_index_elements(ix) = Len(it.fields)
                /\ index_elements(ix) =
                      {<<be_bytes(as_u32(record_of(it.fields[i].id.node).pos)),
                         be_bytes(as_u32(u64_of(it.fields[i].id.node)))>> :
                       i \in DOMAIN it.fields}
                /\ \A i \in DOMAIN it.fields :
                      /\ records_of(it.fields[i].id.node) # {}
                      /\ lookup_hash(ix, args.ecx.sip, u64_of(it.fields[i].id.node))
                            = {as_u32(record_of(it.fields[i].id.node).pos)}
                      /\ \E n \in DOMAIN ret :
                            /\ ret[n].val = u64_of(it.fields[i].id.node)
                            /\ ret[n].pos = record_of(it.fields[i].id.node).pos

\* an encoded struct of two fields whose record holds an index of two
\* elements
C16_Witness ==
    /\ pc = "done"
    /\ \E it \in {x \in all_items : x.kind = "ItemStruct"} :
          /\ Len(it.fields) = 2
          /\ has_field(record_of(it.id), "tag_index")
          /\ count_index_elements(field_of(record_of(it.id), "tag_index")) = 2

\* C20: what encode_metadata returns starts with the 4-byte length field
\* and continues with the body: nothing stands in front of the field, the
\* version tag included, the vector is four bytes longer than the body, and
\* the field is the low 32 bits of the body's length alone.
C20_LengthFieldLeads ==
    pc = "done" =>
        /\ ret.head = <<>>
        /\ ret.prefix_at = 0
        /\ Len(ret.prefix) = 4
        /\ ret.blob_len = wrapping_add(ret.body_len, 4)
        /\ u32_from_be(ret.prefix) = as_u32(ret.body_len)

\* a body of 256 bytes returned from a backing vector that was longer
C20_Witness ==
    /\ pc = "done"
    /\ args.garbage > 0
    /\ ret.body_len = u64_of(256)
    /\ ret.prefix = <<0, 0, 1, 0>>

\* C20 as claimed: the 8-byte version tag stands in front of the length
\* field, which is followed by the body and counts the body alone.
C20_VersionTagLeads ==
    pc = "done" =>
        /\ ret.head = metadata_encoding_version
        /\ ret.prefix_at = 8
        /\ ret.blob_len = wrapping_add(ret.body_len, 12)
        /\ u32_from_be(ret.prefix) = as_u32(ret.body_len)


(***************************************************************************)
(* The whole encode as a reader finds it: the top-level documents of the   *)
(* stream in the order written, the one still open last.                   *)
(***************************************************************************)
sections_written ==
    docs(rbml_w) \o (IF Len(rbml_w.stack) > 1 THEN <<rbml_w.stack[2]>> ELSE <<>>)

section_tags == [n \in DOMAIN sections_written |-> sections_written[n].tag]

\* the order the sections are to come in; the plugin entry point is there
\* when the session has one
sections_expected ==
    <<"tag_crate_crate_name", "tag_crate_triple", "tag_crate_hash",
      "tag_dylib_dependency_formats", "tag_attributes", "tag_crate_deps",
      "tag_lang_items", "tag_native_libraries">>
    \o (IF args.ecx.plugin_registrar_fn # <<>> THEN <<"tag_plugin_registrar_fn">> ELSE <<>>)
    \o <<"tag_codemap", "tag_macro_defs", "tag_impls", "tag_misc_info",
         "tag_reachable_extern_fns", "tag_items", "tag_struct_fields">>

items_section == ret.body[Len(ret.body) - 1]

\* C17: at every point of an encode the sections written so far are the
\* leading ones of the fixed order (unit name, target triple, content hash,
\* dependency formats, root attributes, dependency list, language items,
\* native libraries, the plugin entry point if there is one, source
\* positions, macro definitions, eager-load impl set, root child list with
\* re-exports, reachable extern functions, items, field attributes); when
\* the encode returns all of them are there, the items section holds the
\* item records and then the index, the index standing after every item
\* record, and the field-attribute table is the last document.
C17_SectionOrder ==
    /\ Len(section_tags) <= Len(sections_expected)
    /\ section_tags = SubSeq(sections_expected, 1, Len(section_tags))
    /\ pc = "returned" =>
         /\ section_tags = sections_expected
         /\ ret.body = docs(rbml_w)
         /\ [n \in DOMAIN items_section.kids |-> items_section.kids[n].tag]
               = <<"tag_items_data", "tag_index">>
         /\ \A n \in DOMAIN items_section.kids[1].kids :
               u64_lt(items_section.kids[1].kids[n].pos, items_section.kids[2].pos)
         /\ \A n \in 1..(Len(ret.body) - 1) : u64_lt(ret.body[n].pos, ret.body[n + 1].pos)

\* a finished encode with a plugin entry point, two or more item records
\* and a field in the field-attribute table
C17_Witness ==
    /\ pc = "returned"
    /\ args.ecx.plugin_registrar_fn # <<>>
    /\ Len(all_records(items_section.kids[1].kids)) >= 2
    /\ ret.body[Len(ret.body)].kids # <<>>

(***************************************************************************)
(* The eager-load set as a reader finds it: the entries of the tag_impls   *)
(* document, each the pair of the impl's identity and the trait's.         *)
(***************************************************************************)
impls_section_written ==
    \E n \in DOMAIN docs(rbml_w) : docs(rbml_w)[n].tag = "tag_impls"

impls_section ==
    docs(rbml_w)[CHOOSE n \in DOMAIN docs(rbml_w) : docs(rbml_w)[n].tag = "tag_impls"]

impl_entries(id) ==
    {n \in DOMAIN impls_section.kids :
        impls_section.kids[n].kids[1].val = def_to_u64(local_def(id))}

\* the local impls of a trait that is the Drop trait or is defined in
\* another crate
impls_to_load ==
    {it \in all_items :
        /\ it.kind = "ItemImpl"
        /\ it.of_trait # <<>>
        /\ \/ it.of_trait[1].krate # 0
           \/ it.of_trait = args.ecx.lang_items.items[args.ecx.lang_items.drop_trait_item + 1]}

\* C18: once the eager-load set is written, it holds one entry for every
\* local impl of a trait that is the Drop trait or a trait of another
\* crate, whatever modules the impl is nested in, carrying the impl's
\* identity and the trait's; and it holds nothing else: no inherent impl
\* and no impl of a local trait that is not the Drop trait.
C18_EagerImpls ==
    impls_section_written =>
      /\ \A it \in impls_to_load :
            /\ Cardinality(impl_entries(it.id)) = 1
            /\ \A n \in impl_entries(it.id) :
                  /\ impls_section.kids[n].tag = "tag_impls_impl"
                  /\ Len(impls_section.kids[n].kids) = 2
                  /\ impls_section.kids[n].kids[1].tag = "tag_def_id"
                  /\ impls_section.kids[n].kids[2].tag = "tag_impls_impl_trait_def_id"
                  /\ impls_section.kids[n].kids[2].val = def_to_u64(it.of_trait[1])
      /\ \A it \in all_items \ impls_to_load : impl_entries(it.id) = {}
      /\ Len(impls_section.kids) = Cardinality(impls_to_load)

\* the eager-load set of a crate whose impl of the local Drop trait is
\* inside a module
C18_Witness ==
    /\ impls_section_written
    /\ Len(impls_section.kids) = 1
    /\ \E it \in impls_to_load :
          /\ it \notin {args.krate.module.items[n] : n \in DOMAIN args.krate.module.items}
          /\ it.of_trait[1].krate = 0

\* C19: a second encode of the same crate with the same re-exports,
\* symbols, reachable set and crate store, whatever order the store
\* enumerates its crates in, returns what the first returned: the same
\* length field and the same documents at the same positions; and every
\* element of the index of the items stands in the bucket that the hash of
\* its key selects.
C19_Deterministic ==
    (pc = "returned" /\ args.run = 2) =>
      /\ ret = args.prev
      /\ \A b \in DOMAIN items_section.kids[2].kids[1].kids :
            \A e \in DOMAIN items_section.kids[2].kids[1].kids[b].kids :
               \E id \in 0..MaxNodeId :
                  /\ items_section.kids[2].kids[1].kids[b].kids[e].kids[2].val
                        = be_bytes(as_u32(u64_of(id)))
                  /\ bucket_of(args.ecx.sip, u64_of(id)) = b - 1

\* two finished encodes of a crate with two dependencies that the store
\* enumerated in different orders, and with items in the index
C19_Witness ==
    /\ pc = "returned"
    /\ args.run = 2
    /\ Len(args.ecx.cstore) = 2
    /\ args.ecx.cstore[1].cnum = 2
    /\ args.prev.body[6].kids[1].kids[1].val = crate_dep(1).name
    /\ Len(all_records(items_section.kids[1].kids)) >= 3


(***************************************************************************)
(* Everything written so far in the items section, documents and plain     *)
(* writes alike, those inside other documents included.                    *)
(***************************************************************************)
\* the nodes among kids and inside them that stand at position pos
RECURSIVE nodes_of(_, _)
RECURSIVE nodes_inside(_, _)
nodes_of(kids, pos) ==
    SelectSeq(kids, LAMBDA k : k.pos = pos)
    \o nodes_inside(SelectSeq(kids, LAMBDA k : k.kids # <<>>), pos)

nodes_inside(parents, pos) ==
    IF parents = <<>> THEN <<>>
    ELSE nodes_of(Head(parents).kids, pos) \o nodes_inside(Tail(parents), pos)

nodes_at(pos) ==
    nodes_of(IF pc = "done" THEN docs(rbml_w)[1].kids ELSE rbml_w.stack[2].kids, pos)

\* C21: at every point of encode_info_for_items, what stands at the offset
\* of an entry of the unit-level index is a record, opened with nothing
\* written between the taking of the offset and the opening, and the
\* identity written in that record is the entry's key.
C21_EntryAtRecordStart ==
    pc \in {"walk_crate", "done"} =>
      \A i \in DOMAIN entries_made :
         /\ Len(nodes_at(entries_made[i].pos)) = 1
         /\ is_record(nodes_at(entries_made[i].pos)[1])
         /\ count_fields(nodes_at(entries_made[i].pos)[1], "tag_def_id") = 1
         /\ record_key(nodes_at(entries_made[i].pos)[1]) = entries_made[i].val

\* a finished index with the entries of an enum's variant and of a member
\* of an impl
C21_Witness ==
    /\ pc = "done"
    /\ \E i, j \in DOMAIN ret :
          /\ ret[i].val = u64_of(13)
          /\ ret[j].val = u64_of(41)
          /\ \E it \in all_items : it.kind = "ItemEnum"


(***************************************************************************)
(* The documents of the items section that stand directly in it, in the    *)
(* order written, and the place of a declaration's record among them.      *)
(***************************************************************************)
section_kids == IF pc = "done" THEN docs(rbml_w)[1].kids ELSE rbml_w.stack[2].kids

places_of(id) ==
    {n \in DOMAIN section_kids :
        /\ is_record(section_kids[n])
        /\ record_key(section_kids[n]) = def_to_u64(local_def(id))}

place_of(id) == CHOOSE n \in places_of(id) : TRUE

entries_of(id) == {n \in DOMAIN ret : ret[n].val = u64_of(id)}

entry_of(id) == CHOOSE n \in entries_of(id) : TRUE

\* C22: after an encode, for every struct: each of its field records
\* stands, closed, before the struct's record, in the order of the fields;
\* the entries of the fields come before the struct's entry in the
\* unit-level index and the struct's entry holds the position of the
\* struct's record, taken after the last field record; the struct's record
\* ends with its embedded field index; and when the struct has a
\* constructor, the record right after the struct's is the constructor's,
\* with an entry of its own made after the struct's, and with the struct's
\* identity as its parent.
C22_StructEventOrder ==
    pc = "done" =>
      \A it \in {x \in all_items : x.kind = "ItemStruct"} :
         /\ Cardinality(places_of(it.id)) = 1
         /\ Cardinality(entries_of(it.id)) = 1
         /\ ret[entry_of(it.id)].pos = section_kids[place_of(it.id)].pos
         /\ \A i \in DOMAIN it.fields :
               /\ Cardinality(places_of(it.fields[i].id.node)) = 1
               /\ place_of(it.fields[i].id.node) = place_of(it.id) - Len(it.fields) + i - 1
               /\ Cardinality(entries_of(it.fields[i].id.node)) = 1
               /\ entry_of(it.fields[i].id.node) = entry_of(it.id) - Len(it.fields) + i - 1
               /\ u64_lt(section_kids[place_of(it.fields[i].id.node)].pos,
                         ret[entry_of(it.id)].pos)
         /\ LET r == section_kids[place_of(it.id)]
            IN  /\ r.kids[Len(r.kids)].tag = "tag_index"
                /\ count_fields(r, "tag_index") = 1
                /\ count_index_elements(r.kids[Len(r.kids)]) = Len(it.fields)
         /\ it.ctor # <<>> =>
               /\ places_of(it.ctor[1].id) = {place_of(it.id) + 1}
               /\ entries_of(it.ctor[1].id) = {entry_of(it.id) + 1}
               /\ ret[entry_of(it.ctor[1].id)].pos = section_kids[place_of(it.id) + 1].pos
               /\ count_fields(section_kids[place_of(it.id) + 1],
                               "tag_items_data_parent_item") = 1
               /\ field_of(section_kids[place_of(it.id) + 1],
                           "tag_items_data_parent_item").val = def_to_u64(local_def(it.id))
         /\ it.ctor = <<>> =>
               \A n \in DOMAIN section_kids :
                  has_field(section_kids[n], "tag_items_data_parent_item") =>
                     field_of(section_kids[n], "tag_items_data_parent_item").val
                        # def_to_u64(local_def(it.id))

\* an encoded struct of one field and a constructor
C22_Witness ==
    /\ pc = "done"
    /\ \E it \in all_items :
          /\ it.kind = "ItemStruct"
          /\ Len(it.fields) = 1
          /\ it.ctor # <<>>
          /\ places_of(it.ctor[1].id) # {}


\* the methods among the items of an option of items
methods_among(items_opt) ==
    IF items_opt = <<>> THEN {}
    ELSE {items_opt[1][i] :
             i \in {k \in DOMAIN items_opt[1] : items_opt[1][k].sort = "MethodTraitItem"}}

\* the exports of the crate's modules that name a local item under another
\* name than its own
renaming_exports ==
    UNION {{args.ecx.reexports[id][n] :
               n \in {k \in DOMAIN args.ecx.reexports[id] :
                         /\ args.ecx.reexports[id][k].item # <<>>
                         /\ args.ecx.reexports[id][k].def_id.krate = 0
                         /\ args.ecx.reexports[id][k].name
                               # args.ecx.reexports[id][k].item[1].name}} :
           id \in 0..MaxDepth}

\* C23: after an encode, for every recorded export that renames a local
\* item: when the item has a set of inherent impls, an entry
\* "<export name>::<method name>" is written for every method of those
\* impls and for no method of the trait, also when the impls have no
\* method; when it has no such set, the entries are written for the
\* methods of the trait.
C23_InherentFirst ==
    pc = "done" =>
      \A exp \in renaming_exports :
         reexport_recorded(exp) =>
           IF exp.base_methods # <<>>
           THEN /\ \A m \in methods_among(exp.base_methods) : method_reexported(exp, m)
                /\ \A m \in methods_among(exp.trait_methods) : ~method_reexported(exp, m)
           ELSE \A m \in methods_among(exp.trait_methods) : method_reexported(exp, m)

\* a trait exported under another name, with an inherent impl that has no
\* member
C23_Witness ==
    /\ pc = "done"
    /\ \E exp \in renaming_exports :
          /\ reexport_recorded(exp)
          /\ exp.base_methods = <<<<>>>>
          /\ methods_among(exp.trait_methods) # {}


\* the tags of the documents that are open, outermost first
open_tags == [n \in 1..(Len(rbml_w.stack) - 1) |-> rbml_w.stack[n + 1].tag]

\* C24: between the operations of an encode the open documents are those,
\* and only those, of the operations still running: none while the header
\* sections and the field attributes are written and when the encode
\* returns, the items document while the items are encoded and indexed,
\* and inside it the item data document during the walk of the items;
\* every section encoder and every visit of an item closes what it opened,
\* innermost first, and closes nothing else, so no close ever meets an
\* empty stack of open documents.  An encode stops early only on the
\* crate-number check.
C24_TagBalance ==
    /\ pc \notin {"aborted", "encode_info_for_items", "walk_crate", "done"} =>
          open_tags = <<>>
    /\ pc \in {"encode_info_for_items", "done"} => open_tags = <<"tag_items">>
    /\ pc = "walk_crate" => open_tags = <<"tag_items", "tag_items_data">>
    /\ pc # "aborted" => rbml_w.st = "ok"
    /\ pc = "aborted" =>
          /\ open_tags = <<"tag_crate_deps">>
          /\ \E i \in DOMAIN args.ecx.cstore : sort_by_cnum(args.ecx.cstore)[i].cnum # i

\* an encode that has returned with nothing open, after writing a record
\* that holds a stability document and one that holds an index
C24_Witness ==
    /\ pc = "returned"
    /\ open_tags = <<>>
    /\ \E n \in DOMAIN items_section.kids[1].kids :
          has_field(items_section.kids[1].kids[n], "tag_items_data_item_stability")
    /\ \E n \in DOMAIN items_section.kids[1].kids :
          has_field(items_section.kids[1].kids[n], "tag_index")


\* C25: at every point of encode_info_for_items, every record written
\* holds exactly one family tag.
C25_OneFamilyTag ==
    pc \in {"walk_crate", "done"} =>
      \A n \in DOMAIN records_written :
         count_fields(records_written[n], "tag_items_data_item_family") = 1

\* C26: at every point of encode_info_for_items, no record holds another
\* record: every record stands directly in the item data document.
C26_NoNestedRecords ==
    pc \in {"walk_crate", "done"} =>
      \A n \in DOMAIN section_kids :
         is_record(section_kids[n]) => all_records(section_kids[n].kids) = <<>>

\* C29: at every point of encode_info_for_items, every record written
\* holds its type and its generics at most once.
C29_TypeAtMostOnce ==
    pc \in {"walk_crate", "done"} =>
      \A n \in DOMAIN records_written :
         /\ count_fields(records_written[n], "tag_items_data_item_type") <= 1
         /\ count_fields(records_written[n], "tag_item_generics") <= 1


(***************************************************************************)
(* The child lists of a finished encode: the children a module's record    *)
(* names, and those the root child list of the header names.               *)
(***************************************************************************)
crate_records == all_records(items_section.kids[1].kids)

children_named(nd) ==
    {nd.kids[i].val : i \in {k \in DOMAIN nd.kids : nd.kids[k].tag = "tag_mod_child"}}

children_of_mod(id) ==
    UNION {children_named(crate_records[n]) :
              n \in {k \in DOMAIN crate_records :
                        record_key(crate_records[k]) = def_to_u64(local_def(id))}}

children_of_root ==
    UNION {children_named(ret.body[n].kids[1]) :
              n \in {k \in DOMAIN ret.body : ret.body[k].tag = "tag_misc_info"}}

\* the modules of the crate that hold the item with node id `id`
mods_holding(id) ==
    {md \in all_items :
        /\ md.kind = "ItemMod"
        /\ \E n \in DOMAIN md.md.items : md.md.items[n].id = id}

has_ctor_record(it) ==
    \E n \in DOMAIN crate_records :
       record_key(crate_records[n]) = def_to_u64(local_def(it.ctor[1].id))

\* C27: when an encode has returned, the constructor of every struct that
\* has a constructor record is named as a child by the record of the
\* module that holds the struct, and for a struct of the root module by
\* the root module's record and by the root child list of the header;
\* structs with a constructor and no field included.
C27_CtorIsModChild ==
    pc = "returned" =>
      \A it \in {x \in all_items : x.kind = "ItemStruct" /\ x.ctor # <<>>} :
         has_ctor_record(it) =>
           IF mods_holding(it.id) = {}
           THEN /\ def_to_u64(local_def(it.ctor[1].id)) \in children_of_mod(0)
                /\ def_to_u64(local_def(it.ctor[1].id)) \in children_of_root
           ELSE \A md \in mods_holding(it.id) :
                   def_to_u64(local_def(it.ctor[1].id)) \in children_of_mod(md.id)


\* the exports of the crate's modules whose target is of another crate
extern_exports ==
    UNION {{args.ecx.reexports[id][n] :
               n \in {k \in DOMAIN args.ecx.reexports[id] :
                         args.ecx.reexports[id][k].def_id.krate # 0}} :
           id \in 0..MaxDepth}

\* C28: after an encode, no entry "<export name>::<method name>" is
\* written for an export whose target is of another crate, whatever its
\* node number.
C28_OnlyLocalTargets ==
    pc = "done" =>
      \A exp \in extern_exports :
         \A m \in methods_among(exp.base_methods) \cup methods_among(exp.trait_methods) :
            ~method_reexported(exp, m)


\* the attribute is `#[inline]` or `#[inline(..)]`
is_inline_attr(a) == a.value.name = "inline" /\ a.value.node \in {"MetaWord", "MetaList"}

\* the last inline attribute of the declaration is `#[inline]` or
\* `#[inline(always)]`
marked_inline(attrs) ==
    \E i \in DOMAIN attrs :
       /\ is_inline_attr(attrs[i])
       /\ \A j \in (i + 1)..Len(attrs) : ~is_inline_attr(attrs[j])
       /\ \/ attrs[i].value.node = "MetaWord"
          \/ /\ Len(attrs[i].value.items) = 1
             /\ attrs[i].value.items[1].name = "always"

\* the declaration is one of the three kinds that carry their body: with a
\* type parameter, asking for inlining, or const
carries_body(generic, attrs, constness) ==
    generic \/ marked_inline(attrs) \/ constness = "Const"

\* C30: after an encode, the record of a function holds exactly one inlined
\* body when the function has a type parameter, is marked inline or is
\* const, and none otherwise; the record of a method an impl writes out
\* holds exactly one when the method's type scheme has a type parameter or
\* the method is marked inline or is const, and none otherwise; the record
\* of a method the impl inherits from the trait holds none.
C30_InlinedIff ==
    pc = "done" =>
      /\ \A it \in {x \in all_items : x.kind = "ItemFn"} :
            \A n \in records_of(it.id) :
               count_fields(records_written[n], "tag_ast") =
                  IF carries_body(it.tps_len > 0, it.attrs, it.constness) THEN 1 ELSE 0
      /\ \A d \in impl_methods :
            \A n \in records_of(d.m.id) :
               count_fields(records_written[n], "tag_ast") =
                  IF d.local /\ carries_body(d.m.scheme.generics.types # <<>>,
                                             d.m.attrs, d.m.constness)
                  THEN 1 ELSE 0

\* an encoded impl with a plain method written out without an inlined body,
\* a method marked inline written out with one, and a generic method
\* inherited from the trait without one
C30_Witness ==
    /\ pc = "done"
    /\ \E d \in impl_methods :
          /\ d.local /\ ~carries_body(d.m.scheme.generics.types # <<>>, d.m.attrs, d.m.constness)
          /\ records_of(d.m.id) # {}
          /\ count_fields(record_of(d.m.id), "tag_ast") = 0
    /\ \E d \in impl_methods :
          /\ d.local /\ carries_body(d.m.scheme.generics.types # <<>>, d.m.attrs, d.m.constness)
          /\ count_fields(record_of(d.m.id), "tag_ast") = 1
    /\ \E d \in impl_methods :
          /\ ~d.local /\ carries_body(d.m.scheme.generics.types # <<>>, d.m.attrs, d.m.constness)
          /\ records_of(d.m.id) # {}
          /\ count_fields(record_of(d.m.id), "tag_ast") = 0

====
